---------------------------- MODULE Spec2Model ----------------------------
(***************************************************************************)
(* Google Chat webhook adapter (src/index.js): event classification,       *)
(* message cleaning, command parsing, provider routing and the reply       *)
(* envelope.                                                               *)
(*                                                                         *)
(* A JavaScript string is modelled as a sequence of characters, each a     *)
(* one-character string; a fixed literal of the source (a reply template,  *)
(* an error text) is kept as one element holding the whole literal.        *)
(***************************************************************************)
EXTENDS Integers, Sequences, FiniteSets, TLC

VARIABLES
    event,      \* req.body, the inbound payload
    env,        \* the configuration, read only
    pc,         \* position of the HTTP handler: "start", "await" or "done"
    handlers,   \* the event handlers the HTTP handler has called, in order
    route,      \* the call the event handler has made, with its prompt
    inflight,   \* the upstream request the handler awaits
    requests,   \* the upstream requests issued so far, in order
    sent,       \* the HTTP responses sent so far, in order
    failure,    \* the error the provider call has thrown, if any
    text,       \* input string of the text functions
    step,       \* position of the text-function run
    cleaned,    \* the text as cleaned by handleMessageEvent
    recleaned,  \* the cleaned text after parseCommand's own cleaning
    parsed,     \* result of parseCommand
    call,       \* the function called on its own, with its arguments
    returned    \* what that function has returned or thrown

httpVars == <<event, env, pc, handlers, route, inflight, requests, sent, failure>>

textVars == <<text, step, cleaned, recleaned, parsed>>

callVars == <<call, returned>>

vars == <<event, env, pc, handlers, route, inflight, requests, sent, failure,
          text, step, cleaned, recleaned, parsed, call, returned>>

----------------------------------------------------------------------------
(* Character classes of the regular expressions *)

\* \s of the JavaScript regular expressions, and what String.trim removes
WhiteSpace == {" ", "\n", "\t"}

IsSpace(c) == c \in WhiteSpace

UpperLetters == <<"A","B","C","D","E","F","G","H","I","J","K","L","M",
                  "N","O","P","Q","R","S","T","U","V","W","X","Y","Z">>

LowerLetters == <<"a","b","c","d","e","f","g","h","i","j","k","l","m",
                  "n","o","p","q","r","s","t","u","v","w","x","y","z">>

DigitChars == {"0","1","2","3","4","5","6","7","8","9"}

\* \w: the characters between which \b finds no boundary
IsWordChar(c) ==
    \/ \E i \in 1..Len(UpperLetters) : UpperLetters[i] = c
    \/ \E i \in 1..Len(LowerLetters) : LowerLetters[i] = c
    \/ c \in DigitChars
    \/ c = "_"

\* String.prototype.toLowerCase on one character
ToLowerChar(c) ==
    IF \E i \in 1..Len(UpperLetters) : UpperLetters[i] = c
    THEN LowerLetters[CHOOSE i \in 1..Len(UpperLetters) : UpperLetters[i] = c]
    ELSE c

ToLowerCase(s) == [i \in 1..Len(s) |-> ToLowerChar(s[i])]

----------------------------------------------------------------------------
(* String primitives *)

\* the suffix of s that starts at index i (the empty string past the end)
From(s, i) == IF i > Len(s) THEN <<>> ELSE SubSeq(s, i, Len(s))

\* index of the first character at or after i that is not whitespace,
\* Len(s)+1 when there is none
RECURSIVE SkipSpaces(_, _)
SkipSpaces(s, i) ==
    IF i <= Len(s) /\ IsSpace(s[i]) THEN SkipSpaces(s, i + 1) ELSE i

\* index of the first character at or after i that is whitespace,
\* Len(s)+1 when there is none
RECURSIVE SkipNonSpaces(_, _)
SkipNonSpaces(s, i) ==
    IF i <= Len(s) /\ ~IsSpace(s[i]) THEN SkipNonSpaces(s, i + 1) ELSE i

\* index of the last character at or before i that is not whitespace, 0 when none
RECURSIVE LastNonSpace(_, _)
LastNonSpace(s, i) ==
    IF i >= 1 /\ IsSpace(s[i]) THEN LastNonSpace(s, i - 1) ELSE i

\* String.prototype.trim
Trim(s) ==
    LET a == SkipSpaces(s, 1)
        b == LastNonSpace(s, Len(s))
    IN  IF a > b THEN <<>> ELSE SubSeq(s, a, b)

\* index of the first ">" at or after i, 0 when there is none
RECURSIVE FirstClose(_, _)
FirstClose(s, i) ==
    IF i > Len(s) THEN 0
    ELSE IF s[i] = ">" THEN i
    ELSE FirstClose(s, i + 1)

\* s.replace(/<@[^>]+>/g, ''), scanning from index i
RECURSIVE StripBracketFrom(_, _)
StripBracketFrom(s, i) ==
    IF i > Len(s) THEN <<>>
    ELSE IF /\ s[i] = "<"
            /\ i + 2 <= Len(s)
            /\ s[i + 1] = "@"
            /\ s[i + 2] # ">"
            /\ FirstClose(s, i + 2) # 0
         THEN StripBracketFrom(s, FirstClose(s, i + 2) + 1)
         ELSE <<s[i]>> \o StripBracketFrom(s, i + 1)

StripBracketMentions(s) == StripBracketFrom(s, 1)

\* s.replace(/@[^\s]+\s*/g, ''), scanning from index i
RECURSIVE StripAtFrom(_, _)
StripAtFrom(s, i) ==
    IF i > Len(s) THEN <<>>
    ELSE IF /\ s[i] = "@"
            /\ i + 1 <= Len(s)
            /\ ~IsSpace(s[i + 1])
         THEN StripAtFrom(s, SkipSpaces(s, SkipNonSpaces(s, i + 1)))
         ELSE <<s[i]>> \o StripAtFrom(s, i + 1)

StripAtMentions(s) == StripAtFrom(s, 1)

\* s.replace(/\s+/g, ' '), scanning from index i
RECURSIVE CollapseFrom(_, _)
CollapseFrom(s, i) ==
    IF i > Len(s) THEN <<>>
    ELSE IF IsSpace(s[i])
         THEN <<" ">> \o CollapseFrom(s, SkipSpaces(s, i))
         ELSE <<s[i]>> \o CollapseFrom(s, i + 1)

CollapseSpaces(s) == CollapseFrom(s, 1)

\* the cleaning chain of handleMessageEvent: mentions removed, then trimmed
CleanText(s) == Trim(StripAtMentions(StripBracketMentions(s)))

----------------------------------------------------------------------------
(* Command grammar of parseCommand and handleAppCommandEvent *)

GeminiWord == <<"g","e","m","i","n","i">>

WikiWord == <<"w","i","k","i">>

ChatgptWord == <<"c","h","a","t","g","p","t">>

HelpWord == <<"h","e","l","p">>

\* the characters "." does not match
LineBreaks == {"\n"}

\* (.*)$ matches the suffix r
DotStarToEnd(r) == \A i \in 1..Len(r) : r[i] \notin LineBreaks

\* index after an optional leading "/": the \/? of the command patterns
AfterSlash(s) == IF Len(s) >= 1 /\ s[1] = "/" THEN 2 ELSE 1

\* the word w stands at index p of s, letters compared as under the i flag
WordAt(s, p, w) ==
    /\ p + Len(w) - 1 <= Len(s)
    /\ \A k \in 1..Len(w) : ToLowerChar(s[p + k - 1]) = ToLowerChar(w[k])

\* a command pattern without its \b
NoBoundary(s, q) == TRUE

\* \b at index q of s, given that the character before q is a word character
BoundaryAt(s, q) == q > Len(s) \/ ~IsWordChar(s[q])

\* /^\/?word\b/i.test(s)
HasCommandPrefix(s, w) ==
    /\ WordAt(s, AfterSlash(s), w)
    /\ BoundaryAt(s, AfterSlash(s) + Len(w))

\* s.replace(/^\/?word\b/i, ''): the text after the command word
AfterCommandPrefix(s, w) ==
    IF HasCommandPrefix(s, w) THEN From(s, AfterSlash(s) + Len(w)) ELSE s

\* the capture group of s.match(/^\/?word\b\s*(.*)$/i), for a matching s
CommandRest(s, w) == From(s, SkipSpaces(s, AfterSlash(s) + Len(w)))

\* s.match(/^\/?word\b\s*(.*)$/i) is not null
CommandMatches(s, w) ==
    /\ HasCommandPrefix(s, w)
    /\ DotStarToEnd(CommandRest(s, w))

\* lower.match(/^([2-5])\s+(.*)$/) is not null
NumericMatches(lower) ==
    /\ Len(lower) >= 2
    /\ lower[1] \in {"2", "3", "4", "5"}
    /\ IsSpace(lower[2])
    /\ DotStarToEnd(From(lower, SkipSpaces(lower, 2)))

\* the second capture group of the numeric pattern
NumericRest(lower) == From(lower, SkipSpaces(lower, 2))

\* the local "trimmed" without its trim
ParseUntrimmed(messageText) ==
    CollapseSpaces(StripAtMentions(StripBracketMentions(messageText)))

\* the local "trimmed" of parseCommand
ParseTrimmed(messageText) ==
    CollapseSpaces(Trim(StripAtMentions(StripBracketMentions(messageText))))

\* the numeric-shortcut branch of parseCommand, for a lower that matches
NumericCommand(lower) ==
    LET id   == lower[1]
        rest == NumericRest(lower)
    IN  IF id = "2" THEN [command |-> "gemini", argument |-> Trim(rest)]
        ELSE IF id = "3" THEN [command |-> "help", argument |-> <<>>]
        ELSE IF id = "4" THEN [command |-> "wiki", argument |-> Trim(rest)]
        ELSE [command |-> "chatgpt", argument |-> Trim(rest)]

\* the command-word branches of parseCommand, in their order
WordCommand(trimmed) ==
    IF CommandMatches(trimmed, GeminiWord)
    THEN [command |-> "gemini", argument |-> Trim(CommandRest(trimmed, GeminiWord))]
    ELSE IF CommandMatches(trimmed, WikiWord)
    THEN [command |-> "wiki", argument |-> Trim(CommandRest(trimmed, WikiWord))]
    ELSE IF CommandMatches(trimmed, ChatgptWord)
    THEN [command |-> "chatgpt", argument |-> Trim(CommandRest(trimmed, ChatgptWord))]
    ELSE IF HasCommandPrefix(trimmed, HelpWord)
    THEN [command |-> "help", argument |-> <<>>]
    ELSE [command |-> "", argument |-> trimmed]

parseCommand(messageText) ==
    LET trimmed == ParseTrimmed(messageText)
        lower   == ToLowerCase(trimmed)
    IN  IF NumericMatches(lower) THEN NumericCommand(lower)
        ELSE WordCommand(trimmed)

----------------------------------------------------------------------------
(* JavaScript values read from the payload and from upstream bodies *)

Undef == [k |-> "undefined"]

Null == [k |-> "null"]

Str(s) == [k |-> "string", v |-> s]

Num(n) == [k |-> "number", v |-> n]

\* JavaScript truthiness of a value
Truthy(x) ==
    IF x.k = "undefined" \/ x.k = "null" THEN FALSE
    ELSE IF x.k = "string" THEN x.v # <<>>
    ELSE IF x.k = "number" THEN x.v # 0
    ELSE TRUE

\* a || b
OrElse(a, b) == IF Truthy(a) THEN a ELSE b

\* String(x) and template interpolation of a string or number
DigitText(n) == <<"0","1","2","3","4","5","6","7","8","9">>[n + 1]

ToText(x) ==
    IF x.k = "string" THEN x.v
    ELSE IF x.k = "number" THEN <<DigitText(x.v)>>
    ELSE <<x.k>>

\* x?.f and x.f on a value that is not null or undefined
Field(x, f) == IF x.k = "object" /\ f \in DOMAIN x THEN x[f] ELSE Undef

Arr(items) == [k |-> "array", items |-> items]

\* x[0]
First(x) == IF x.k = "array" /\ Len(x.items) > 0 THEN x.items[1] ELSE Undef

\* reading a property of x throws a TypeError
Nullish(x) == x.k = "undefined" \/ x.k = "null"

\* the decimal text of an HTTP status
StatusText(n) ==
    CASE n = 200 -> "200"
      [] n = 201 -> "201"
      [] n = 429 -> "429"
      [] OTHER   -> "500"

\* provider.toUpperCase() of a provider name
ToUpperName(provider) == IF provider = "gemini" THEN "GEMINI" ELSE provider

\* the whole of s is whitespace: !s.trim()
IsBlank(s) == Trim(s) = <<>>

----------------------------------------------------------------------------
(* Replies *)

\* a reply object without the two action levels
FlatChatResponse(replyText) ==
    [hostAppDataAction |-> [message |-> [text |-> replyText]]]

createChatResponse(replyText) ==
    [hostAppDataAction |->
        [chatDataAction |->
            [createMessageAction |->
                [message |-> [text |-> replyText]]]]]

NoTextReply == <<"I received a message without text content.">>

MessageErrorReply == <<"Sorry, I encountered an error processing your message.">>

WelcomeReply ==
    <<"Hello! I'm your AI assistant powered by Gemini. ",
      "Send me any message to get started, or type /help for commands!">>

UnknownActionReply == <<"Unknown action. Please try again.">>

AppCommandErrorReply == <<"Sorry, I could not process that command.">>

NoPromptAIReply == <<"Please provide a message to process.">>

NoPromptWikiReply == <<"Please provide a question for the wiki search.">>

NoPromptChatGPTReply == <<"Please provide a message for ChatGPT.">>

OnlyGeminiReply == <<"Only Gemini AI is currently supported.">>

\* a configured GEMINI_API_URL: whether it holds generativelanguage.googleapis.com
\* and the model name that follows "models/" in it ("" when there is none)
Url(studio, model) == [present |-> TRUE, studio |-> studio, model |-> model]

NoUrl == [present |-> FALSE, studio |-> FALSE, model |-> ""]

getGeminiModelName(cfg) ==
    IF ~cfg.geminiApiUrl.present THEN "unknown"
    ELSE IF cfg.geminiApiUrl.model = "" THEN "unknown"
    ELSE cfg.geminiApiUrl.model

getHelpMessage(cfg) ==
    LET geminiModel == getGeminiModelName(cfg)
        azureModel  == IF cfg.azureOpenAIModel # "" THEN cfg.azureOpenAIModel
                       ELSE "not configured"
        searchModel == IF cfg.azureSearchOpenAIModel # "" THEN cfg.azureSearchOpenAIModel
                       ELSE azureModel
    IN  <<"AI Chat Bot - Multiple AI Providers. Commands: /wiki [question] (",
          searchModel, ") /gemini [message] (", geminiModel,
          ") /chatgpt [message] (", azureModel, ") /help ...">>

----------------------------------------------------------------------------
(* Results of the asynchronous functions up to their next await *)

\* the function returned this reply text
Reply(replyText) == [kind |-> "reply", text |-> replyText]

\* the function threw an error with this message
Throw(message) == [kind |-> "throw", message |-> message]

\* the function returned this value
Return(value) == [kind |-> "return", value |-> value]

\* the function awaits the answer to this request
Await(request) == [kind |-> "await", request |-> request]

----------------------------------------------------------------------------
(* callGeminiAPI *)

GeminiKeyError ==
    <<"Gemini API key not configured. Please set GEMINI_API_KEY environment variable.">>

GeminiUrlError == <<"GEMINI_API_URL not configured in environment variables.">>

GeminiFailedPrefix == <<"Gemini API request failed: ">>

\* the fetch of callGeminiAPI, for the Google AI Studio shape
StudioRequest(prompt, cfg) ==
    [to      |-> "gemini",
     shape   |-> "studio",
     url     |-> <<cfg.geminiApiUrl, "?key=", cfg.geminiApiKey>>,
     auth    |-> "none",
     prompt  |-> prompt,
     payload |-> [contents |-> <<[parts |-> <<[text |-> prompt]>>]>>]]

\* the fetch of callGeminiAPI, for the Vertex AI shape
VertexRequest(prompt, cfg, accessToken) ==
    LET modelName == IF cfg.geminiApiUrl.model # "" THEN cfg.geminiApiUrl.model
                     ELSE "gemini-2.0-flash-exp"
        location  == IF cfg.location # "" THEN cfg.location ELSE "us-central1"
    IN  [to      |-> "gemini",
         shape   |-> "vertex",
         url     |-> <<"https://", location, "-aiplatform.googleapis.com/v1/projects/",
                       cfg.projectID, "/locations/", location,
                       "/publishers/google/models/", modelName, ":generateContent">>,
         auth    |-> <<"Bearer ", accessToken>>,
         prompt  |-> prompt,
         payload |-> [contents |-> <<[role |-> "user", parts |-> <<[text |-> prompt]>>]>>]]

\* the access-token fetch of the Vertex AI shape
TokenRequest(prompt) == [to |-> "token", prompt |-> prompt]

\* a callGeminiAPI that asks for the API key only when the URL is the public one
GeminiKeyForStudioOnly(prompt, cfg) ==
    IF ~cfg.geminiApiUrl.present
    THEN Throw(GeminiUrlError)
    ELSE IF ~cfg.geminiApiUrl.studio
    THEN Await(TokenRequest(prompt))
    ELSE IF cfg.geminiApiKey = "" \/ cfg.geminiApiKey = "YOUR_GEMINI_API_KEY"
    THEN Throw(GeminiKeyError)
    ELSE Await(StudioRequest(prompt, cfg))

\* callGeminiAPI up to its first await
callGeminiAPI(prompt, cfg) ==
    IF cfg.geminiApiKey = "" \/ cfg.geminiApiKey = "YOUR_GEMINI_API_KEY"
    THEN Throw(GeminiKeyError)
    ELSE IF ~cfg.geminiApiUrl.present
    THEN Throw(GeminiUrlError)
    ELSE IF cfg.geminiApiUrl.studio
    THEN Await(StudioRequest(prompt, cfg))
    ELSE Await(TokenRequest(prompt))

\* callGeminiAPI after the token fetch: the catch wraps a failure
GeminiAfterToken(prompt, cfg, o) ==
    IF o.kind = "network"
    THEN Throw(GeminiFailedPrefix \o o.message)
    ELSE Await(VertexRequest(prompt, cfg, o.token))

\* the extraction of the response text, inside the try block
GeminiExtract(o) ==
    IF o.kind = "network" THEN Throw(o.message)
    ELSE IF o.status < 200 \/ o.status > 299
    THEN Throw(GeminiFailedPrefix \o <<StatusText(o.status), " - ", o.raw>>)
    ELSE IF o.json.k = "notjson" THEN Throw(<<"Unexpected token in JSON">>)
    ELSE IF Nullish(o.json)
    THEN Throw(<<"Cannot read properties of null (reading 'candidates')">>)
    ELSE LET candidates == Field(o.json, "candidates")
             content    == Field(First(candidates), "content")
             parts      == Field(content, "parts")
         IN  IF /\ Truthy(candidates)
                /\ Truthy(First(candidates))
                /\ Truthy(content)
                /\ Truthy(parts)
                /\ Truthy(First(parts))
             THEN LET responseText == Field(First(parts), "text")
                  IN  IF Nullish(responseText)
                      THEN Throw(<<"Cannot read properties of undefined (reading 'length')">>)
                      ELSE Return(responseText)
             ELSE Throw(<<"Invalid response format from Gemini API: ", o.raw>>)

\* a response handling that asks the generative API again after a failure
GeminiRetryOnFailure(o) ==
    LET r == GeminiExtract(o)
    IN  IF r.kind = "throw" THEN Await([to |-> "gemini", shape |-> "retry"]) ELSE r

\* callGeminiAPI after its fetch: the catch wraps whatever the try block threw
GeminiAfterFetch(o) ==
    LET r == GeminiExtract(o)
    IN  IF r.kind = "throw" THEN Throw(GeminiFailedPrefix \o r.message) ELSE r

----------------------------------------------------------------------------
(* handleAIRequest *)

\* a catch block that rethrows instead of replying
AIRequestRethrow(provider, message) == Throw(message)

\* the catch block of handleAIRequest
AIRequestCatch(provider, message) ==
    Reply(<<"Sorry, I encountered an error with the ", provider, " service: ">>
          \o message)

\* the reply built from the text callGeminiAPI returned
AIRequestFormat(provider, response) ==
    Reply(<<"(robot) ", ToUpperName(provider), " Response:\n\n">> \o ToText(response))

\* handleAIRequest from the return of callGeminiAPI on
AIRequestFinish(provider, r) ==
    IF r.kind = "throw" THEN AIRequestCatch(provider, r.message)
    ELSE IF r.kind = "return" THEN AIRequestFormat(provider, r.value)
    ELSE r

\* handleAIRequest up to its first await
handleAIRequest(messageText, provider, cfg) ==
    IF messageText = <<>> \/ IsBlank(messageText)
    THEN Reply(NoPromptAIReply)
    ELSE IF provider # "gemini"
    THEN Reply(OnlyGeminiReply)
    ELSE AIRequestFinish(provider, callGeminiAPI(messageText, cfg))

----------------------------------------------------------------------------
(* buildAzureSearchDataSource *)

\* s.includes(sub)
Includes(s, sub) ==
    \E i \in 0..(Len(s) - Len(sub)) :
        \A k \in 1..Len(sub) : s[i + k] = sub[k]

VectorWord == <<"v","e","c","t","o","r">>

SemanticWord == <<"s","e","m","a","n","t","i","c">>

\* the fields_mapping object: one entry per configured column setting
FieldsMapping(cfg) ==
    { f \in {"azureSearchContentColumns", "azureSearchVectorColumns",
             "azureSearchTitleColumn", "azureSearchUrlColumn",
             "azureSearchFilenameColumn"} : cfg[f] # "" }

NoDataSource == [type |-> "null"]

buildAzureSearchDataSource(cfg) ==
    IF cfg.azureSearchService = "" \/ cfg.azureSearchIndex = ""
    THEN NoDataSource
    ELSE [type |-> "azure_search",
          parameters |->
            [endpoint |-> <<"https://", cfg.azureSearchService, ".search.windows.net">>,
             index_name |-> cfg.azureSearchIndex,
             authentication |->
                IF cfg.azureSearchKey # ""
                THEN [type |-> "api_key", key |-> cfg.azureSearchKey]
                ELSE [type |-> "system_assigned_managed_identity", key |-> ""],
             top_n_documents |-> cfg.azureSearchTopK,
             strictness |-> cfg.azureSearchStrictness,
             in_scope |-> cfg.azureSearchEnableInDomain,
             query_type |-> cfg.azureSearchQueryType,
             include_contexts |-> cfg.searchIncludeContexts,
             max_search_queries |-> cfg.searchMaxSearchQueries,
             allow_partial_result |-> cfg.searchAllowPartialResult,
             vectorization_dimensions |-> cfg.searchVectorizationDimensions,
             semantic_configuration |->
                IF /\ cfg.azureSearchSemanticSearchConfig # ""
                   /\ Includes(cfg.azureSearchQueryType, SemanticWord)
                THEN cfg.azureSearchSemanticSearchConfig ELSE "",
             fields_mapping |-> FieldsMapping(cfg),
             embedding_dependency |->
                IF /\ cfg.azureOpenAIEmbeddingName # ""
                   /\ Includes(cfg.azureSearchQueryType, VectorWord)
                THEN cfg.azureOpenAIEmbeddingName ELSE ""]]

----------------------------------------------------------------------------
(* callAzureOpenAI *)

AzureConfigError ==
    <<"Azure OpenAI configuration incomplete. Required: AZURE_OPENAI_ENDPOINT (or AZURE_OPENAI_RESOURCE), AZURE_OPENAI_KEY, AZURE_OPENAI_MODEL">>

\* the deployment name callAzureOpenAI selects when options.model is not given
AzureModel(useSearch, cfg) ==
    IF useSearch
    THEN IF cfg.azureSearchOpenAIModel # "" THEN cfg.azureSearchOpenAIModel
         ELSE cfg.azureOpenAIModel
    ELSE cfg.azureOpenAIModel

\* a messages array that opens with the system turn whether or not search is on
AzureMessagesWithSystem(prompt, chatHistory, useSearch, cfg) ==
    <<[role |-> "system", content |-> <<cfg.azureOpenAISystemMessage>>]>>
    \o chatHistory
    \o <<[role |-> "user", content |-> prompt]>>

\* the messages array of the request
AzureMessages(prompt, chatHistory, useSearch, cfg) ==
    (IF useSearch
     THEN <<[role |-> "system", content |-> <<cfg.azureOpenAISystemMessage>>]>>
     ELSE <<>>)
    \o chatHistory
    \o <<[role |-> "user", content |-> prompt]>>

\* endpoint.replace(/\/$/, '')
StripTrailingSlash(endpoint) ==
    IF Len(endpoint) > 0 /\ endpoint[Len(endpoint)] = "/"
    THEN SubSeq(endpoint, 1, Len(endpoint) - 1)
    ELSE endpoint

\* a payload that carries the output limit whether or not search is on
MaxTokensAlways(useSearch, cfg) == cfg.azureOpenAIMaxTokens

\* payload.max_completion_tokens: set only when search is off, lines 721-724;
\* an absent key of the body is the value "absent"
MaxCompletionTokens(useSearch, cfg) ==
    IF ~useSearch THEN cfg.azureOpenAIMaxTokens ELSE "absent"

\* a payload that carries the data source as built, null or not
DataSourcesUnchecked(useSearch, cfg) ==
    IF useSearch THEN <<buildAzureSearchDataSource(cfg)>> ELSE "absent"

\* payload.data_sources: set when search is on and the builder returned a
\* configuration, lines 726-737
DataSources(useSearch, cfg) ==
    IF useSearch /\ buildAzureSearchDataSource(cfg) # NoDataSource
    THEN <<buildAzureSearchDataSource(cfg)>> ELSE "absent"

\* the fetch of callAzureOpenAI
AzureRequest(prompt, chatHistory, useSearch, cfg) ==
    LET model == AzureModel(useSearch, cfg)
    IN  [to      |-> "azure",
         url     |-> StripTrailingSlash(cfg.azureOpenAIEndpoint)
                     \o <<"/openai/deployments/", model,
                          "/chat/completions?api-version=", cfg.azureOpenAIApiVersion>>,
         apiKey  |-> cfg.azureOpenAIKey,
         prompt  |-> prompt,
         useSearch |-> useSearch,
         payload |->
            [messages    |-> AzureMessages(prompt, chatHistory, useSearch, cfg),
             temperature |-> cfg.azureOpenAITemperature,
             top_p       |-> cfg.azureOpenAITopP,
             model       |-> model,
             max_completion_tokens |-> MaxCompletionTokens(useSearch, cfg),
             data_sources |-> DataSources(useSearch, cfg)]]

\* a call that issues its request without the configuration check
AzureUnchecked(prompt, chatHistory, useSearch, cfg) ==
    Await(AzureRequest(prompt, chatHistory, useSearch, cfg))

\* callAzureOpenAI up to its await
callAzureOpenAI(prompt, chatHistory, useSearch, cfg) ==
    IF \/ cfg.azureOpenAIEndpoint = <<>>
       \/ cfg.azureOpenAIKey = ""
       \/ AzureModel(useSearch, cfg) = ""
    THEN Throw(AzureConfigError)
    ELSE Await(AzureRequest(prompt, chatHistory, useSearch, cfg))

\* the text of one block of an array content
BlockText(block) ==
    IF block.k = "string" THEN block.v
    ELSE IF Field(block, "text").k = "string" THEN Field(block, "text").v
    ELSE IF Field(block, "content").k = "string" THEN Field(block, "content").v
    ELSE <<>>

\* blocks.map(BlockText).join('\n')
RECURSIVE JoinBlocks(_)
JoinBlocks(blocks) ==
    IF blocks = <<>> THEN <<>>
    ELSE IF Len(blocks) = 1 THEN BlockText(blocks[1])
    ELSE BlockText(blocks[1]) \o <<"\n">> \o JoinBlocks(Tail(blocks))

\* the content of the normalized result: message.content in its three shapes
AzureContent(content) ==
    LET picked ==
            IF content.k = "string" THEN content
            ELSE IF content.k = "array" THEN Str(JoinBlocks(content.items))
            ELSE IF content.k = "object"
            THEN OrElse(Field(content, "text"), OrElse(Field(content, "content"), Str(<<>>)))
            ELSE Str(<<>>)
    IN  OrElse(picked, Str(<<>>))

\* callAzureOpenAI after its fetch
AzureAfterFetch(o) ==
    IF o.kind = "network" THEN Throw(o.message)
    ELSE IF o.status # 200
    THEN Throw(<<"Azure OpenAI API request failed with code ", StatusText(o.status),
                 ": ", o.raw>>)
    ELSE IF o.json.k = "notjson" THEN Throw(<<"Unexpected token in JSON">>)
    ELSE IF Nullish(o.json)
    THEN Throw(<<"Cannot read properties of null (reading 'choices')">>)
    ELSE LET choices == Field(o.json, "choices")
         IN  IF Truthy(choices) /\ choices.k = "array" /\ Len(choices.items) > 0
             THEN LET choice  == First(choices)
                      message == Field(choice, "message")
                  IN  IF Nullish(choice)
                      THEN Throw(<<"Cannot read properties of null (reading 'message')">>)
                      ELSE IF Nullish(message)
                      THEN Throw(<<"Cannot read properties of undefined (reading 'content')">>)
                      ELSE Return([content   |-> AzureContent(Field(message, "content")),
                                   citations |->
                                      IF Truthy(Field(Field(message, "context"), "citations"))
                                      THEN Field(Field(message, "context"), "citations")
                                      ELSE Null])
             ELSE Throw(<<"Invalid response format from Azure OpenAI API: ", o.raw>>)

----------------------------------------------------------------------------
(* handleWikiRequest and handleChatGPTRequest *)

DocWord == <<"d","o","c">>

\* index of the first character at or after i that is not a digit
RECURSIVE SkipDigits(_, _)
SkipDigits(s, i) ==
    IF i <= Len(s) /\ s[i] \in DigitChars THEN SkipDigits(s, i + 1) ELSE i

\* the index after a match of /\[doc\s*\d+\]/i that starts at i, 0 when none
DocMarkerEnd(s, i) ==
    IF s[i] = "[" /\ WordAt(s, i + 1, DocWord)
    THEN LET d == SkipSpaces(s, i + 4)
             e == SkipDigits(s, d)
         IN  IF e > d /\ e <= Len(s) /\ s[e] = "]" THEN e + 1 ELSE 0
    ELSE 0

\* s.replace(/\[doc\s*\d+\]/gi, ''), scanning from index i
RECURSIVE StripDocFrom(_, _)
StripDocFrom(s, i) ==
    IF i > Len(s) THEN <<>>
    ELSE IF DocMarkerEnd(s, i) # 0 THEN StripDocFrom(s, DocMarkerEnd(s, i))
    ELSE <<s[i]>> \o StripDocFrom(s, i + 1)

StripDocMarkers(s) == StripDocFrom(s, 1)

\* the catch block of handleWikiRequest
WikiCatch(message) ==
    Reply(<<"Sorry, I encountered an error with the wiki search: ">> \o message)

\* the reply handleWikiRequest builds from the normalized response
WikiFormat(response) ==
    LET content == OrElse(response.content, Str(<<>>))
    IN  IF content.k # "string"
        THEN WikiCatch(<<"cleanContent.replace is not a function">>)
        ELSE Reply(<<"(books) Wiki Response:\n\n">> \o Trim(StripDocMarkers(content.v)))

\* handleWikiRequest from the return of callAzureOpenAI on
WikiFinish(r) ==
    IF r.kind = "throw" THEN WikiCatch(r.message)
    ELSE IF r.kind = "return" THEN WikiFormat(r.value)
    ELSE r

\* a handler that calls the chat API without looking at its prompt
WikiRequestUnchecked(prompt, cfg) == WikiFinish(callAzureOpenAI(prompt, <<>>, TRUE, cfg))

\* a wiki handler that passes a stored turn to the chat API as history
WikiRequestWithHistory(prompt, cfg) ==
    IF prompt = <<>> \/ IsBlank(prompt)
    THEN Reply(NoPromptWikiReply)
    ELSE WikiFinish(callAzureOpenAI(prompt,
                        <<[role |-> "assistant", content |-> <<"earlier answer">>]>>,
                        TRUE, cfg))

\* handleWikiRequest up to its await
handleWikiRequest(prompt, cfg) ==
    IF prompt = <<>> \/ IsBlank(prompt)
    THEN Reply(NoPromptWikiReply)
    ELSE WikiFinish(callAzureOpenAI(prompt, <<>>, TRUE, cfg))

\* the catch block of handleChatGPTRequest
ChatGPTCatch(message) ==
    Reply(<<"Sorry, I encountered an error with ChatGPT: ">> \o message)

\* the reply handleChatGPTRequest builds from the normalized response
ChatGPTFormat(response) ==
    Reply(<<"(speech) ChatGPT Response:\n\n">> \o ToText(response.content))

\* handleChatGPTRequest from the return of callAzureOpenAI on
ChatGPTFinish(r) ==
    IF r.kind = "throw" THEN ChatGPTCatch(r.message)
    ELSE IF r.kind = "return" THEN ChatGPTFormat(r.value)
    ELSE r

\* handleChatGPTRequest up to its await
handleChatGPTRequest(prompt, cfg) ==
    IF prompt = <<>> \/ IsBlank(prompt)
    THEN Reply(NoPromptChatGPTReply)
    ELSE ChatGPTFinish(callAzureOpenAI(prompt, <<>>, FALSE, cfg))

----------------------------------------------------------------------------
(* Inputs: texts *)

\* longest input of parseCommand, in tokens
MaxTokens == 3

\* longest input of the cleaning run, in characters
MaxCleanLen == 7

\* longest message text of a payload, in tokens
MaxMessageTokens == 2

HiText == <<"H","i">>

MentionText == <<"<","@","a",">">>

ParseTokens ==
    { GeminiWord, <<"G","e","m","i","n","i">>, WikiWord, ChatgptWord, HelpWord,
      <<"/">>, <<" ">>, <<"\n">>, <<"s">>, HiText,
      <<"2">>, <<"3">>, <<"4">>, <<"5">>,
      MentionText, <<"@","b">> }

CleanChars == {"<", "@", ">", " ", "a"}

MessageTokens ==
    { GeminiWord, WikiWord, ChatgptWord, HelpWord, <<"/">>, <<" ">>, HiText,
      <<" ">> \o HiText, <<"3">>, MentionText, <<"s">> }

RECURSIVE Flatten(_)
Flatten(ts) == IF ts = <<>> THEN <<>> ELSE Head(ts) \o Flatten(Tail(ts))

\* the concatenations of at most n of the tokens
TokenTexts(tokens, n) ==
    { Flatten(ts) : ts \in UNION { [1..m -> tokens] : m \in 0..n } }

ParseTexts == TokenTexts(ParseTokens, MaxTokens)

CleanTexts == UNION { [1..n -> CleanChars] : n \in 0..MaxCleanLen }

MessageTexts == TokenTexts(MessageTokens, MaxMessageTokens)

NoResult == [command |-> "unset", argument |-> <<>>]

----------------------------------------------------------------------------
(* Inputs: payloads *)

\* a message object of a payload
MessageObject(messageText, argumentText, commandName) ==
    [k |-> "object", text |-> messageText, argumentText |-> argumentText,
     commandName |-> commandName]

\* event.appCommand
AppCommandObject(commandId, commandName, argumentText) ==
    [k |-> "object", commandId |-> commandId, commandName |-> commandName,
     argumentText |-> argumentText]

\* the payload {}
EmptyEvent ==
    [body |-> "object",
     type |-> "absent",
     hasMessagePayload |-> FALSE,
     hasAddedToSpacePayload |-> FALSE,
     hasRemovedFromSpacePayload |-> FALSE,
     action |-> FALSE,
     hasAppCommandPayload |-> FALSE,
     mpMessage |-> Undef,
     message |-> Undef,
     acMessage |-> Undef,
     acCommandId |-> Undef,
     commandId |-> Undef,
     appCommand |-> Undef]

\* a request without a body: req.body is undefined
NoBody == [EmptyEvent EXCEPT !.body = "undefined"]

EventTypes ==
    {"absent", "MESSAGE", "ADDED_TO_SPACE", "REMOVED_FROM_SPACE", "CARD_CLICKED",
     "SLASH_COMMAND", "APP_HOME"}

\* every combination of the type marker and the five payload markers
ClassifyEvents ==
    { [EmptyEvent EXCEPT !.type = t,
                         !.hasMessagePayload = a,
                         !.hasAddedToSpacePayload = b,
                         !.hasRemovedFromSpacePayload = c,
                         !.action = d,
                         !.hasAppCommandPayload = f,
                         !.message = m] :
        t \in EventTypes, a \in BOOLEAN, b \in BOOLEAN, c \in BOOLEAN,
        d \in BOOLEAN, f \in BOOLEAN,
        m \in {Undef, MessageObject(Str(HiText), Undef, Undef)} }

\* values of a text field that holds no usable text
NoTextValues == {Undef, Null, Str(<<>>), Num(0)}

TextValues == NoTextValues \cup {Num(5)} \cup { Str(t) : t \in MessageTexts }

MessageEvents ==
    { [EmptyEvent EXCEPT !.type = "MESSAGE", !.message = m] :
        m \in {Undef, Null}
              \cup { MessageObject(v, Undef, Undef) : v \in TextValues } }
    \cup
    { [EmptyEvent EXCEPT !.hasMessagePayload = TRUE, !.mpMessage = p, !.message = m] :
        p \in {Undef} \cup { MessageObject(v, Undef, Undef) :
                               v \in NoTextValues \cup {Str(HiText), Str(<<"/">> \o WikiWord)} },
        m \in {Undef, MessageObject(Str(HelpWord), Undef, Undef)} }
    \cup
    { [EmptyEvent EXCEPT !.type = "APP_HOME", !.message = MessageObject(v, Undef, Undef)] :
        v \in NoTextValues \cup {Str(<<"/">> \o ChatgptWord \o <<" ">> \o HiText)} }

AppTexts ==
    { Undef, Num(5), Str(HiText), Str(<<"/">> \o GeminiWord \o <<" ">> \o HiText),
      Str(<<"/">> \o WikiWord), Str(ChatgptWord \o <<" ">> \o HiText),
      Str(<<"/">> \o HelpWord) }

AppArguments == {Undef, Str(HiText), Str(<<" ">>), Num(5)}

AppNames ==
    { Undef, Str(GeminiWord), Str(<<"/">> \o WikiWord), Str(ChatgptWord), Str(HelpWord),
      Str(HiText) }

AppIds == {Undef, Num(0), Str(<<"2">>), Num(3), Str(<<"4">>), Num(5), Str(<<"9">>)}

AppCommandEvents ==
    { [EmptyEvent EXCEPT !.hasAppCommandPayload = TRUE,
                         !.acMessage = MessageObject(t, a, n),
                         !.acCommandId = i] :
        t \in AppTexts, a \in AppArguments, n \in AppNames, i \in AppIds }
    \cup
    { [EmptyEvent EXCEPT !.type = "SLASH_COMMAND",
                         !.message = MessageObject(t, a, Undef),
                         !.commandId = i,
                         !.appCommand = c] :
        t \in {Undef, Str(HiText), Str(<<"/">> \o WikiWord \o <<" ">> \o HiText)},
        a \in {Undef, Str(HiText)},
        i \in {Undef, Str(<<"2">>)},
        c \in {Undef} \cup { AppCommandObject(ci, cn, ca) :
                               ci \in {Undef, Num(5)},
                               cn \in {Undef, Str(ChatgptWord)},
                               ca \in {Undef, Str(HiText)} } }

Events == {NoBody} \cup ClassifyEvents \cup MessageEvents \cup AppCommandEvents

----------------------------------------------------------------------------
(* The cleaning and the parsing of the texts the payloads carry *)

\* the text fields of the payloads, as strings
PayloadTexts ==
    { ToText(Field(m, "text")) :
        m \in UNION { {e.mpMessage, e.message, e.acMessage} : e \in Events } }

\* the cleaning chain, computed once for each text a payload carries
Cleaned == [t \in PayloadTexts |-> CleanText(t)]

\* parseCommand, computed once for each cleaned text
Parsed == [t \in { Cleaned[u] : u \in PayloadTexts } |-> parseCommand(t)]

----------------------------------------------------------------------------
(* Routing: which handler an event handler calls, and with which prompt *)

Route(handler, prompt) == [handler |-> handler, prompt |-> prompt]

NoRoute == Route("none", <<>>)

\* the defaults of the application: CONFIG.DEFAULT_AI_PROVIDER
DefaultProvider == "gemini"

\* the call a route stands for, up to its first await
RunRoute(rt, cfg) ==
    CASE rt.handler = "handleAIRequest" -> handleAIRequest(rt.prompt, DefaultProvider, cfg)
      [] rt.handler = "handleWikiRequest" -> handleWikiRequest(rt.prompt, cfg)
      [] rt.handler = "handleChatGPTRequest" -> handleChatGPTRequest(rt.prompt, cfg)
      [] rt.handler = "getHelpMessage" -> Reply(getHelpMessage(cfg))
      [] rt.handler = "TypeError" -> Throw(rt.prompt)
      [] OTHER -> Reply(rt.prompt)

\* the provider call a route makes before its first await, when it makes one
ProviderStart(rt, cfg) ==
    IF rt.prompt = <<>> \/ IsBlank(rt.prompt) THEN Return(Null)
    ELSE CASE rt.handler = "handleAIRequest" -> callGeminiAPI(rt.prompt, cfg)
           [] rt.handler = "handleWikiRequest" -> callAzureOpenAI(rt.prompt, <<>>, TRUE, cfg)
           [] rt.handler = "handleChatGPTRequest" -> callAzureOpenAI(rt.prompt, <<>>, FALSE, cfg)
           [] OTHER -> Return(Null)

----------------------------------------------------------------------------
(* handleMessageEvent *)

\* event.chat?.messagePayload?.message || event.message
EventMessage(e) == OrElse(e.mpMessage, e.message)

\* a chain that ignores the command and takes the default branch
DefaultRoute(commandResult, messageText) == Route("handleAIRequest", messageText)

\* the if-else chain on the parsed command, lines 121-134
CommandRoute(commandResult, messageText) ==
    IF commandResult.command = "gemini"
    THEN Route("handleAIRequest", commandResult.argument)
    ELSE IF commandResult.command = "wiki"
    THEN Route("handleWikiRequest", commandResult.argument)
    ELSE IF commandResult.command = "chatgpt"
    THEN Route("handleChatGPTRequest", commandResult.argument)
    ELSE IF commandResult.command = "help"
    THEN Route("getHelpMessage", <<>>)
    ELSE Route("handleAIRequest", messageText)

\* handleMessageEvent from the cleaning of a truthy message.text on; a text
\* that is no string has no replace
TextRoute(rawText) ==
    IF rawText.k # "string"
    THEN Route("TypeError", <<"message.text.replace is not a function">>)
    ELSE LET messageText == Cleaned[rawText.v]
         IN  IF messageText = <<>> THEN Route("getHelpMessage", <<>>)
             ELSE CommandRoute(Parsed[messageText], messageText)

\* a routing that tests the text against null and undefined only
MessageRouteNullCheck(e) ==
    LET rawText == Field(EventMessage(e), "text")
    IN  IF Nullish(rawText) THEN Route("reply", NoTextReply)
        ELSE TextRoute(rawText)

\* the routing of handleMessageEvent
MessageRoute(e) ==
    LET rawText == Field(EventMessage(e), "text")
    IN  IF ~Truthy(rawText) THEN Route("reply", NoTextReply)
        ELSE TextRoute(rawText)

\* the catch block of handleMessageEvent
MessageCatch(r) == IF r.kind = "throw" THEN Reply(MessageErrorReply) ELSE r

----------------------------------------------------------------------------
(* handleAddedToSpaceEvent, handleRemovedFromSpaceEvent, handleActionEvent *)

\* a welcome that quotes the message of the payload
WelcomeQuotingMessage(e) ==
    Reply(WelcomeReply \o ToText(OrElse(Field(e.message, "text"), Str(<<>>))))

handleAddedToSpaceEvent(e) == Reply(WelcomeReply)

handleRemovedFromSpaceEvent(e) == Reply(<<>>)

handleActionEvent(e) == Reply(UnknownActionReply)

----------------------------------------------------------------------------
(* handleAppCommandEvent *)

\* the first of the three text locations that holds a truthy value, else ''
AppRawText(e) ==
    IF Truthy(Field(e.acMessage, "text")) THEN Field(e.acMessage, "text")
    ELSE IF Truthy(Field(e.mpMessage, "text")) THEN Field(e.mpMessage, "text")
    ELSE IF Truthy(Field(e.message, "text")) THEN Field(e.message, "text")
    ELSE Str(<<>>)

AppArgumentText(e) ==
    IF Truthy(Field(e.acMessage, "argumentText")) THEN Field(e.acMessage, "argumentText")
    ELSE IF Truthy(Field(e.message, "argumentText")) THEN Field(e.message, "argumentText")
    ELSE IF Truthy(Field(e.appCommand, "argumentText")) THEN Field(e.appCommand, "argumentText")
    ELSE Str(<<>>)

AppCommandId(e) ==
    OrElse(e.acCommandId,
           OrElse(e.commandId, OrElse(Field(e.appCommand, "commandId"), Str(<<>>))))

AppCommandName(e) ==
    OrElse(Field(e.acMessage, "commandName"),
           OrElse(Field(e.appCommand, "commandName"), Str(<<>>)))

\* commandName === 'word' || commandName === '/word'
NamedCommand(commandName, w) ==
    commandName.k = "string" /\ (commandName.v = w \/ commandName.v = <<"/">> \o w)

\* (argumentText && argumentText.trim()) || messageText.replace(/^\/?word\b/i, '').trim()
\* as a route to the handler; a truthy argumentText that is no string has no trim
TextPrompt(handler, argumentText, messageText, w) ==
    IF Truthy(argumentText) /\ argumentText.k # "string"
    THEN Route("TypeError", <<"argumentText.trim is not a function">>)
    ELSE IF Truthy(argumentText) /\ Trim(argumentText.v) # <<>>
    THEN Route(handler, Trim(argumentText.v))
    ELSE Route(handler, Trim(AfterCommandPrefix(messageText, w)))

\* (argumentText || '').trim() as a route to the handler
IdPrompt(handler, argumentText) ==
    IF Truthy(argumentText) /\ argumentText.k # "string"
    THEN Route("TypeError", <<"(argumentText || \"\").trim is not a function">>)
    ELSE IF Truthy(argumentText) THEN Route(handler, Trim(argumentText.v))
    ELSE Route(handler, <<>>)

\* a fallback that compares the command id with the strings only
CommandIdStrict(commandId, argumentText) ==
    IF commandId = Str(<<"2">>) THEN IdPrompt("handleAIRequest", argumentText)
    ELSE IF commandId = Str(<<"4">>) THEN IdPrompt("handleWikiRequest", argumentText)
    ELSE IF commandId = Str(<<"5">>) THEN IdPrompt("handleChatGPTRequest", argumentText)
    ELSE Route("getHelpMessage", <<>>)

\* the fallback of handleAppCommandEvent on the command id, lines 259-276
CommandIdRoute(commandId, argumentText) ==
    IF ~Truthy(commandId) THEN Route("getHelpMessage", <<>>)
    ELSE IF ToText(commandId) = <<"2">> THEN IdPrompt("handleAIRequest", argumentText)
    ELSE IF ToText(commandId) = <<"3">> THEN Route("getHelpMessage", <<>>)
    ELSE IF ToText(commandId) = <<"4">> THEN IdPrompt("handleWikiRequest", argumentText)
    ELSE IF ToText(commandId) = <<"5">> THEN IdPrompt("handleChatGPTRequest", argumentText)
    ELSE Route("getHelpMessage", <<>>)

\* String(rawText || '') cleaned: the local messageText, lines 233-236
AppMessageText(e) == Cleaned[ToText(AppRawText(e))]

\* the routing of handleAppCommandEvent on the values it has extracted,
\* lines 244-276
AppCommandDispatch(argumentText, commandId, messageText, commandName) ==
    IF HasCommandPrefix(messageText, GeminiWord) \/ NamedCommand(commandName, GeminiWord)
    THEN TextPrompt("handleAIRequest", argumentText, messageText, GeminiWord)
    ELSE IF HasCommandPrefix(messageText, WikiWord) \/ NamedCommand(commandName, WikiWord)
    THEN TextPrompt("handleWikiRequest", argumentText, messageText, WikiWord)
    ELSE IF HasCommandPrefix(messageText, ChatgptWord) \/ NamedCommand(commandName, ChatgptWord)
    THEN TextPrompt("handleChatGPTRequest", argumentText, messageText, ChatgptWord)
    ELSE IF HasCommandPrefix(messageText, HelpWord) \/ NamedCommand(commandName, HelpWord)
    THEN Route("getHelpMessage", <<>>)
    ELSE CommandIdRoute(commandId, argumentText)

\* the routing of handleAppCommandEvent, lines 203-276
AppCommandRoute(e) ==
    AppCommandDispatch(AppArgumentText(e), AppCommandId(e), AppMessageText(e),
                       AppCommandName(e))

\* the catch block of handleAppCommandEvent
AppCommandCatch(r) == IF r.kind = "throw" THEN Reply(AppCommandErrorReply) ELSE r

----------------------------------------------------------------------------
(* The HTTP handler: classification of the payload, lines 61-75 *)

HasMessage(e) == e.type = "MESSAGE" \/ e.hasMessagePayload

HasAddedToSpace(e) == e.type = "ADDED_TO_SPACE" \/ e.hasAddedToSpacePayload

HasRemovedFromSpace(e) == e.type = "REMOVED_FROM_SPACE" \/ e.hasRemovedFromSpacePayload

HasAction(e) == e.type = "CARD_CLICKED" \/ e.action

HasAppCommand(e) == e.type = "SLASH_COMMAND" \/ e.hasAppCommandPayload

\* the chain with the app-command test ahead of the others
BranchAppCommandFirst(e) ==
    IF HasAppCommand(e) THEN "handleAppCommandEvent"
    ELSE IF HasMessage(e) THEN "handleMessageEvent"
    ELSE IF HasAddedToSpace(e) THEN "handleAddedToSpaceEvent"
    ELSE IF HasRemovedFromSpace(e) THEN "handleRemovedFromSpaceEvent"
    ELSE IF HasAction(e) THEN "handleActionEvent"
    ELSE "handleMessageEvent (default)"

\* the branch of the if-else chain the payload takes
Branch(e) ==
    IF HasMessage(e) THEN "handleMessageEvent"
    ELSE IF HasAddedToSpace(e) THEN "handleAddedToSpaceEvent"
    ELSE IF HasRemovedFromSpace(e) THEN "handleRemovedFromSpaceEvent"
    ELSE IF HasAction(e) THEN "handleActionEvent"
    ELSE IF HasAppCommand(e) THEN "handleAppCommandEvent"
    ELSE "handleMessageEvent (default)"

\* the catch block of the HTTP handler: status and body of the failure response
HttpCatch(message) ==
    [status |-> 500,
     body   |-> createChatResponse(<<"Sorry, I encountered an error: ">> \o message)]

\* res.send of a handler's reply
HttpSend(replyText) == [status |-> 200, body |-> createChatResponse(replyText)]

----------------------------------------------------------------------------
(* Inputs: configuration *)

SimpleQuery == <<"s","i","m","p","l","e">>

\* every setting configured; the Google AI Studio call shape
FullEnv ==
    [geminiApiKey |-> "gemini-key",
     geminiApiUrl |-> Url(TRUE, "gemini-3-pro-preview"),
     projectID |-> "sto-ai",
     location |-> "us-west3",
     azureOpenAIEndpoint |-> <<"https://ai-service.openai.azure.com">>,
     azureOpenAIKey |-> "azure-key",
     azureOpenAIModel |-> "gpt-5.1",
     azureSearchOpenAIModel |-> "gpt-4o",
     azureOpenAIApiVersion |-> "2024-12-01-preview",
     azureOpenAITemperature |-> "0",
     azureOpenAIMaxTokens |-> "2000",
     azureOpenAITopP |-> "1",
     azureOpenAISystemMessage |-> "You are an AI assistant for System Administrators",
     azureSearchService |-> "ai-search",
     azureSearchIndex |-> "wiki",
     azureSearchKey |-> "search-key",
     azureSearchQueryType |-> SimpleQuery,
     azureSearchTopK |-> "5",
     azureSearchStrictness |-> "3",
     azureSearchEnableInDomain |-> TRUE,
     azureSearchSemanticSearchConfig |-> "default",
     azureSearchContentColumns |-> "",
     azureSearchVectorColumns |-> "",
     azureSearchTitleColumn |-> "",
     azureSearchUrlColumn |-> "",
     azureSearchFilenameColumn |-> "",
     azureOpenAIEmbeddingName |-> "",
     searchMaxSearchQueries |-> "",
     searchAllowPartialResult |-> "",
     searchIncludeContexts |-> Undef,
     searchVectorizationDimensions |-> "",
     azureCosmosDBAccount |-> "db-chatbot",
     azureCosmosDBDatabase |-> "db_conversation_history",
     azureCosmosDBConversationsContainer |-> "conversations",
     azureCosmosDBAccountKey |-> "cosmos-key"]

\* the full configuration and the configurations that differ from it in one setting
Envs ==
    { FullEnv,
      [FullEnv EXCEPT !.geminiApiKey = ""],
      [FullEnv EXCEPT !.geminiApiKey = "YOUR_GEMINI_API_KEY"],
      [FullEnv EXCEPT !.geminiApiUrl = NoUrl],
      [FullEnv EXCEPT !.geminiApiUrl = Url(FALSE, "gemini-3-pro-preview")],
      [FullEnv EXCEPT !.geminiApiUrl = Url(FALSE, ""), !.location = ""],
      [FullEnv EXCEPT !.azureOpenAIEndpoint = <<>>],
      [FullEnv EXCEPT !.azureOpenAIEndpoint = <<"https://ai-service.openai.azure.com", "/">>],
      [FullEnv EXCEPT !.azureOpenAIKey = ""],
      [FullEnv EXCEPT !.azureOpenAIModel = ""],
      [FullEnv EXCEPT !.azureSearchOpenAIModel = ""],
      [FullEnv EXCEPT !.azureOpenAIModel = "", !.azureSearchOpenAIModel = ""],
      [FullEnv EXCEPT !.azureSearchService = ""] }

----------------------------------------------------------------------------
(* Inputs: what an upstream call can come back with *)

\* fetch rejects: no connection, DNS failure, reset
NetworkError == [kind |-> "network", message |-> <<"fetch failed">>]

\* fetch resolves with this status and this body
Response(status, raw, json) ==
    [kind |-> "response", status |-> status, raw |-> raw, json |-> json]

NotJson == [k |-> "notjson"]

Object1(f, v) == [k |-> "object"] @@ (f :> v)

OkText == <<"O","k">>

\* bodies of the generative API: the path candidates[0].content.parts[0].text
\* cut at each of its elements
GeminiBodies ==
    { [raw |-> "<html>", json |-> NotJson],
      [raw |-> "null", json |-> Null],
      [raw |-> "{}", json |-> [k |-> "object"]],
      [raw |-> "{candidates:[]}", json |-> Object1("candidates", Arr(<<>>))],
      [raw |-> "{candidates:[{}]}",
       json |-> Object1("candidates", Arr(<<[k |-> "object"]>>))],
      [raw |-> "{candidates:[{content:{}}]}",
       json |-> Object1("candidates", Arr(<<Object1("content", [k |-> "object"])>>))],
      [raw |-> "{candidates:[{content:{parts:[]}}]}",
       json |-> Object1("candidates",
                    Arr(<<Object1("content", Object1("parts", Arr(<<>>)))>>))],
      [raw |-> "{candidates:[{content:{parts:[{}]}}]}",
       json |-> Object1("candidates",
                    Arr(<<Object1("content",
                              Object1("parts", Arr(<<[k |-> "object"]>>)))>>))],
      [raw |-> "{candidates:[{content:{parts:[{text:'Ok'}]}}]}",
       json |-> Object1("candidates",
                    Arr(<<Object1("content",
                              Object1("parts", Arr(<<Object1("text", Str(OkText))>>)))>>))] }

GeminiOutcomes ==
    {NetworkError}
    \cup { Response(200, b.raw, b.json) : b \in GeminiBodies }
    \cup { Response(s, "quota exceeded", NotJson) : s \in {429, 500} }

TokenOutcomes ==
    { [kind |-> "network", message |-> <<"Could not load the default credentials">>],
      [kind |-> "token", token |-> "access-token"] }

AnswerText == <<"A","n","s","w","e","r"," ","[","d","o","c","1","]",".">>

\* a chat-completions body with one choice whose message has this content
ChoiceBody(raw, content) ==
    [raw  |-> raw,
     json |-> Object1("choices", Arr(<<Object1("message", Object1("content", content))>>))]

AzureBodies ==
    { [raw |-> "<html>", json |-> NotJson],
      [raw |-> "null", json |-> Null],
      [raw |-> "{}", json |-> [k |-> "object"]],
      [raw |-> "{choices:[]}", json |-> Object1("choices", Arr(<<>>))],
      [raw |-> "{choices:[{}]}", json |-> Object1("choices", Arr(<<[k |-> "object"]>>))],
      ChoiceBody("{choices:[{message:{content:'Answer [doc1].'}}]}", Str(AnswerText)),
      ChoiceBody("{choices:[{message:{content:''}}]}", Str(<<>>)),
      ChoiceBody("{choices:[{message:{content:null}}]}", Null),
      ChoiceBody("{choices:[{message:{content:['Ok',{text:'Ok'},{}]}}]}",
                 Arr(<<Str(OkText), Object1("text", Str(OkText)), [k |-> "object"]>>)),
      ChoiceBody("{choices:[{message:{content:{text:'Ok'}}}]}",
                 Object1("text", Str(OkText))),
      ChoiceBody("{choices:[{message:{content:{text:5}}}]}", Object1("text", Num(5))) }

AzureOutcomes ==
    {NetworkError}
    \cup { Response(200, b.raw, b.json) : b \in AzureBodies }
    \cup { Response(s, "quota exceeded", NotJson) : s \in {201, 429, 500} }

NoRequest == [to |-> "none"]

NoFailure == [failed |-> FALSE, message |-> <<>>]

\* no function has been called on its own
NoCall == [fn |-> "none"]

NoOutcome == [kind |-> "none"]

Failed(message) == [failed |-> TRUE, message |-> message]

----------------------------------------------------------------------------
(* The HTTP handler as a state machine: one inbound event *)

\* the function is registered and the configuration is read; no request yet
Init ==
    /\ event = NoBody
    /\ env \in Envs
    /\ pc = "listening"
    /\ handlers = <<>>
    /\ route = NoRoute
    /\ inflight = NoRequest
    /\ requests = <<>>
    /\ sent = <<>>
    /\ failure = NoFailure
    /\ text = <<>>
    /\ step = "idle"
    /\ cleaned = <<>>
    /\ recleaned = <<>>
    /\ parsed = NoResult
    /\ call = NoCall
    /\ returned = NoOutcome

\* a request arrives: the framework calls the handler with its body
Receive ==
    /\ pc = "listening"
    /\ event' \in Events
    /\ pc' = "start"
    /\ UNCHANGED <<env, handlers, route, inflight, requests, sent, failure>>
    /\ UNCHANGED <<textVars, callVars>>

\* what the HTTP handler does with the result of the awaited event handler:
\* res.send of the reply, or the catch block for an exception
HttpRespond(r) ==
    IF r.kind = "throw" THEN HttpCatch(r.message) ELSE HttpSend(r.text)

\* the handler sends its response, or waits for the request it has issued
Settle(r) ==
    IF r.kind = "await"
    THEN /\ pc' = "await"
         /\ inflight' = r.request
         /\ requests' = Append(requests, r.request)
         /\ sent' = sent
    ELSE /\ pc' = "done"
         /\ inflight' = NoRequest
         /\ requests' = requests
         /\ sent' = Append(sent, HttpRespond(r))

\* the error of a provider call that threw
Noted(pr) == IF pr.kind = "throw" THEN Failed(pr.message) ELSE failure

\* the catch block of the event handler that awaits the provider handler
EventCatch(frame, r) ==
    IF frame = "handleMessageEvent" THEN MessageCatch(r) ELSE AppCommandCatch(r)

\* reading event.type of an undefined body throws; the catch block answers
HttpTypeError ==
    /\ pc = "start"
    /\ event.body # "object"
    /\ \E r \in {Throw(<<"Cannot read properties of undefined (reading 'type')">>)} :
          Settle(r)
    /\ UNCHANGED <<event, env, handlers, route, failure>>
    /\ UNCHANGED <<textVars, callVars>>

\* handleMessageEvent up to its first await
RunMessageEvent ==
    \E rt \in {MessageRoute(event)} :
    \E r \in {MessageCatch(RunRoute(rt, env))} :
        /\ handlers' = Append(handlers, "handleMessageEvent")
        /\ route' = rt
        /\ failure' = Noted(ProviderStart(rt, env))
        /\ Settle(r)
        /\ UNCHANGED <<event, env>>
        /\ UNCHANGED <<textVars, callVars>>

\* a handler that makes no call: its reply is sent at once
RunPlainEvent(name, reply) ==
    /\ handlers' = Append(handlers, name)
    /\ \E r \in {reply} : Settle(r)
    /\ UNCHANGED <<event, env, route, failure>>
    /\ UNCHANGED <<textVars, callVars>>

HttpMessage ==
    /\ pc = "start"
    /\ event.body = "object"
    /\ Branch(event) = "handleMessageEvent"
    /\ RunMessageEvent

HttpAddedToSpace ==
    /\ pc = "start"
    /\ event.body = "object"
    /\ Branch(event) = "handleAddedToSpaceEvent"
    /\ RunPlainEvent("handleAddedToSpaceEvent", handleAddedToSpaceEvent(event))

HttpRemovedFromSpace ==
    /\ pc = "start"
    /\ event.body = "object"
    /\ Branch(event) = "handleRemovedFromSpaceEvent"
    /\ RunPlainEvent("handleRemovedFromSpaceEvent", handleRemovedFromSpaceEvent(event))

HttpAction ==
    /\ pc = "start"
    /\ event.body = "object"
    /\ Branch(event) = "handleActionEvent"
    /\ RunPlainEvent("handleActionEvent", handleActionEvent(event))

HttpAppCommand ==
    /\ pc = "start"
    /\ event.body = "object"
    /\ Branch(event) = "handleAppCommandEvent"
    /\ \E argumentText \in {AppArgumentText(event)} :
       \E commandId \in {AppCommandId(event)} :
       \E messageText \in {AppMessageText(event)} :
       \E commandName \in {AppCommandName(event)} :
       \E rt \in {AppCommandDispatch(argumentText, commandId, messageText, commandName)} :
       \E r \in {AppCommandCatch(RunRoute(rt, env))} :
           /\ handlers' = Append(handlers, "handleAppCommandEvent")
           /\ route' = rt
           /\ failure' = Noted(ProviderStart(rt, env))
           /\ Settle(r)
    /\ UNCHANGED <<event, env>>
    /\ UNCHANGED <<textVars, callVars>>

\* the else branch: any other payload is treated as a message
HttpDefault ==
    /\ pc = "start"
    /\ event.body = "object"
    /\ Branch(event) = "handleMessageEvent (default)"
    /\ RunMessageEvent

\* the access-token fetch of the Vertex AI shape comes back
TokenReturns ==
    /\ pc = "await"
    /\ inflight.to = "token"
    /\ \E o \in TokenOutcomes :
       \E pr \in {GeminiAfterToken(route.prompt, env, o)} :
       \E r \in {EventCatch(handlers[Len(handlers)],
                            AIRequestFinish(DefaultProvider, pr))} :
            /\ failure' = Noted(pr)
            /\ Settle(r)
    /\ UNCHANGED <<event, env, handlers, route>>
    /\ UNCHANGED <<textVars, callVars>>

\* the fetch of callGeminiAPI comes back
GeminiReturns ==
    /\ pc = "await"
    /\ inflight.to = "gemini"
    /\ \E o \in GeminiOutcomes :
       \E pr \in {GeminiAfterFetch(o)} :
       \E r \in {EventCatch(handlers[Len(handlers)],
                            AIRequestFinish(DefaultProvider, pr))} :
            /\ failure' = Noted(pr)
            /\ Settle(r)
    /\ UNCHANGED <<event, env, handlers, route>>
    /\ UNCHANGED <<textVars, callVars>>

\* the fetch of callAzureOpenAI comes back
AzureReturns ==
    /\ pc = "await"
    /\ inflight.to = "azure"
    /\ \E o \in AzureOutcomes :
       \E pr \in {AzureAfterFetch(o)} :
       \E r \in {EventCatch(handlers[Len(handlers)],
                            IF route.handler = "handleWikiRequest"
                            THEN WikiFinish(pr) ELSE ChatGPTFinish(pr))} :
            /\ failure' = Noted(pr)
            /\ Settle(r)
    /\ UNCHANGED <<event, env, handlers, route>>
    /\ UNCHANGED <<textVars, callVars>>

\* the steps of the handler and the returns of the calls it awaits
Handle ==
    \/ HttpTypeError
    \/ HttpMessage
    \/ HttpAddedToSpace
    \/ HttpRemovedFromSpace
    \/ HttpAction
    \/ HttpAppCommand
    \/ HttpDefault
    \/ TokenReturns
    \/ GeminiReturns
    \/ AzureReturns

Next == Receive \/ Handle

Spec == Init /\ [][Next]_vars

\* the handler runs on, and every upstream call returns or fails
FairSpec == Spec /\ WF_vars(Handle)

----------------------------------------------------------------------------
(* parseCommand applied to one text *)

\* the HTTP handler is not running
HttpIdle ==
    /\ event = EmptyEvent
    /\ env = FullEnv
    /\ pc = "idle"
    /\ handlers = <<>>
    /\ route = NoRoute
    /\ inflight = NoRequest
    /\ requests = <<>>
    /\ sent = <<>>
    /\ failure = NoFailure
    /\ call = NoCall
    /\ returned = NoOutcome

InitParse ==
    /\ HttpIdle
    /\ text \in ParseTexts
    /\ step = "input"
    /\ cleaned = <<>>
    /\ recleaned = <<>>
    /\ parsed = NoResult

ApplyParse ==
    /\ step = "input"
    /\ parsed' = parseCommand(text)
    /\ step' = "parsed"
    /\ UNCHANGED <<text, cleaned, recleaned>>
    /\ UNCHANGED <<httpVars, callVars>>

NextParse == ApplyParse

SpecParse == InitParse /\ [][NextParse]_vars

----------------------------------------------------------------------------
(* The two cleanings a message text goes through: handleMessageEvent    *)
(* cleans it, then parseCommand cleans what it is given                 *)

InitClean ==
    /\ HttpIdle
    /\ text \in CleanTexts
    /\ step = "input"
    /\ cleaned = <<>>
    /\ recleaned = <<>>
    /\ parsed = NoResult

\* lines 106-109 of handleMessageEvent
CleanInHandler ==
    /\ step = "input"
    /\ cleaned' = CleanText(text)
    /\ step' = "cleaned"
    /\ UNCHANGED <<text, recleaned, parsed>>
    /\ UNCHANGED <<httpVars, callVars>>

\* lines 294-297 of parseCommand, given the handler's cleaned text
CleanInParser ==
    /\ step = "cleaned"
    /\ recleaned' = Trim(StripAtMentions(StripBracketMentions(cleaned)))
    /\ step' = "recleaned"
    /\ UNCHANGED <<text, cleaned, parsed>>
    /\ UNCHANGED <<httpVars, callVars>>

NextClean == CleanInHandler \/ CleanInParser

SpecClean == InitClean /\ [][NextClean]_vars

----------------------------------------------------------------------------
(* The provider functions called on their own: handleAIRequest,            *)
(* handleWikiRequest, handleChatGPTRequest and callAzureOpenAI, each from   *)
(* its call to its return, over prompts, histories, configurations and     *)
(* upstream outcomes                                                       *)

\* prompts: empty, whitespace only, a question, a question inside blanks
PromptTexts ==
    { <<>>, <<" ">>, <<" ", "\n", "\t">>, HiText, <<" ">> \o HiText \o <<" ">> }

\* the prompt argument: not given, null, or a string
PromptValues == {Undef, Null} \cup { Str(p) : p \in PromptTexts }

\* !prompt holds of undefined, null and '': the three take the same branch
PromptOf(c) == IF Truthy(c.prompt) THEN c.prompt.v ELSE <<>>

\* chatHistory: no turn, one turn, two turns
ChatHistories ==
    { <<>>,
      <<[role |-> "user", content |-> OkText]>>,
      <<[role |-> "user", content |-> OkText],
        [role |-> "assistant", content |-> AnswerText]>> }

\* the configurations of Envs, and those without a search index name
ProviderEnvs ==
    Envs \cup { [FullEnv EXCEPT !.azureSearchIndex = ""],
                [FullEnv EXCEPT !.azureSearchService = "", !.azureSearchIndex = ""] }

Call(fn, prompt, provider, chatHistory, useSearch) ==
    [fn |-> fn, prompt |-> prompt, provider |-> provider,
     chatHistory |-> chatHistory, useSearch |-> useSearch]

ProviderCalls ==
    { Call("handleAIRequest", p, pr, <<>>, FALSE) :
        p \in PromptValues, pr \in {"gemini", "openai"} }
    \cup { Call("handleWikiRequest", p, "azure", <<>>, TRUE) : p \in PromptValues }
    \cup { Call("handleChatGPTRequest", p, "azure", <<>>, FALSE) : p \in PromptValues }
    \cup { Call("callAzureOpenAI", Str(HiText), "azure", h, u) :
             h \in ChatHistories, u \in BOOLEAN }

SeeDocsText ==
    <<"s","e","e"," ","[","d","o","c"," ","3","]"," ","a","n","d"," ",
      "[","D","o","c","1","2","]">>

NestedDocText == <<"[","d","o","c","[","d","o","c","1","]","2","]">>

NoDocText == <<"[","d","o","c","]"," ","[","d","o","c"," ","1">>

\* contents with citation markers, and contents in the shapes the
\* normalizer distinguishes
ProviderBodies ==
    { ChoiceBody("{choices:[{message:{content:'see [doc 3] and [Doc12]'}}]}",
                 Str(SeeDocsText)),
      ChoiceBody("{choices:[{message:{content:'[doc[doc1]2]'}}]}", Str(NestedDocText)),
      ChoiceBody("{choices:[{message:{content:'[doc] [doc 1'}}]}", Str(NoDocText)),
      ChoiceBody("{choices:[{message:{content:5}}]}", Num(5)),
      ChoiceBody("{choices:[{message:{content:[]}}]}", Arr(<<>>)),
      ChoiceBody("{choices:[{message:{content:[null,5,{content:'Ok'}]}}]}",
                 Arr(<<Null, Num(5), Object1("content", Str(OkText))>>)),
      ChoiceBody("{choices:[{message:{content:{}}}]}", [k |-> "object"]),
      ChoiceBody("{choices:[{message:{content:{content:'Ok'}}}]}",
                 Object1("content", Str(OkText))),
      ChoiceBody("{choices:[{message:{content:{text:{}}}}]}",
                 Object1("text", [k |-> "object"])),
      [raw  |-> "{choices:[{message:{}}]}",
       json |-> Object1("choices", Arr(<<Object1("message", [k |-> "object"])>>))] }

ProviderAzureOutcomes ==
    AzureOutcomes \cup { Response(200, b.raw, b.json) : b \in ProviderBodies }

\* the call up to its first await
RunCall(c, cfg) ==
    CASE c.fn = "handleAIRequest" -> handleAIRequest(PromptOf(c), c.provider, cfg)
      [] c.fn = "handleWikiRequest" -> handleWikiRequest(PromptOf(c), cfg)
      [] c.fn = "handleChatGPTRequest" -> handleChatGPTRequest(PromptOf(c), cfg)
      [] OTHER -> callAzureOpenAI(PromptOf(c), c.chatHistory, c.useSearch, cfg)

\* the provider call the function makes before its first await, when it makes one
CallStart(c, cfg) ==
    IF c.fn = "callAzureOpenAI"
    THEN callAzureOpenAI(PromptOf(c), c.chatHistory, c.useSearch, cfg)
    ELSE IF c.fn = "handleAIRequest" /\ c.provider # "gemini" THEN Return(Null)
    ELSE ProviderStart(Route(c.fn, PromptOf(c)), cfg)

\* the function from the return of its provider call on
CallFinish(c, pr) ==
    CASE c.fn = "handleAIRequest" -> AIRequestFinish(c.provider, pr)
      [] c.fn = "handleWikiRequest" -> WikiFinish(pr)
      [] c.fn = "handleChatGPTRequest" -> ChatGPTFinish(pr)
      [] OTHER -> pr

\* the function returns or throws, or waits for the request it has issued
CallSettle(r) ==
    IF r.kind = "await"
    THEN /\ pc' = "await"
         /\ inflight' = r.request
         /\ requests' = Append(requests, r.request)
         /\ returned' = returned
    ELSE /\ pc' = "returned"
         /\ inflight' = NoRequest
         /\ requests' = requests
         /\ returned' = r

InitProvider ==
    /\ event = EmptyEvent
    /\ env \in ProviderEnvs
    /\ pc = "called"
    /\ handlers = <<>>
    /\ route = NoRoute
    /\ inflight = NoRequest
    /\ requests = <<>>
    /\ sent = <<>>
    /\ failure = NoFailure
    /\ text = <<>>
    /\ step = "idle"
    /\ cleaned = <<>>
    /\ recleaned = <<>>
    /\ parsed = NoResult
    /\ call \in ProviderCalls
    /\ returned = NoOutcome

\* the function runs up to its first await
CallProvider ==
    /\ pc = "called"
    /\ \E r \in {RunCall(call, env)} :
          /\ failure' = Noted(CallStart(call, env))
          /\ CallSettle(r)
    /\ UNCHANGED <<event, env, handlers, route, sent, call>>
    /\ UNCHANGED textVars

\* the access-token fetch of the Vertex AI shape comes back
ProviderTokenReturns ==
    /\ pc = "await"
    /\ inflight.to = "token"
    /\ \E o \in TokenOutcomes :
       \E pr \in {GeminiAfterToken(PromptOf(call), env, o)} :
            /\ failure' = Noted(pr)
            /\ CallSettle(CallFinish(call, pr))
    /\ UNCHANGED <<event, env, handlers, route, sent, call>>
    /\ UNCHANGED textVars

\* the fetch of callGeminiAPI comes back
ProviderGeminiReturns ==
    /\ pc = "await"
    /\ inflight.to = "gemini"
    /\ \E o \in GeminiOutcomes :
       \E pr \in {GeminiAfterFetch(o)} :
            /\ failure' = Noted(pr)
            /\ CallSettle(CallFinish(call, pr))
    /\ UNCHANGED <<event, env, handlers, route, sent, call>>
    /\ UNCHANGED textVars

\* the fetch of callAzureOpenAI comes back
ProviderAzureReturns ==
    /\ pc = "await"
    /\ inflight.to = "azure"
    /\ \E o \in ProviderAzureOutcomes :
       \E pr \in {AzureAfterFetch(o)} :
            /\ failure' = Noted(pr)
            /\ CallSettle(CallFinish(call, pr))
    /\ UNCHANGED <<event, env, handlers, route, sent, call>>
    /\ UNCHANGED textVars

NextProvider ==
    \/ CallProvider
    \/ ProviderTokenReturns
    \/ ProviderGeminiReturns
    \/ ProviderAzureReturns

SpecProvider == InitProvider /\ [][NextProvider]_vars

----------------------------------------------------------------------------
(* The History Store: getOrCreateConversation, saveMessageToHistory and    *)
(* getChatHistory, each called on its own                                  *)

\* a check that looks at the account key alone
CosmosKeyOnly(cfg) == cfg.azureCosmosDBAccountKey # ""

\* the negation of !cosmosAccount || !cosmosDatabase || !cosmosContainer || !cosmosKey
CosmosConfigured(cfg) ==
    /\ cfg.azureCosmosDBAccount # ""
    /\ cfg.azureCosmosDBDatabase # ""
    /\ cfg.azureCosmosDBConversationsContainer # ""
    /\ cfg.azureCosmosDBAccountKey # ""

\* the documents endpoint of the container
CosmosUrl(cfg) ==
    <<"https://", cfg.azureCosmosDBAccount, ".documents.azure.com:443/", "dbs/",
      cfg.azureCosmosDBDatabase, "/colls/", cfg.azureCosmosDBConversationsContainer,
      "/docs">>

\* the values crypto.randomUUID() can return
Uuids == {"uuid-1", "uuid-2"}

\* the fetch of a History Store function
CosmosRequest(op, userId, body, cfg) ==
    [to           |-> "cosmos",
     op           |-> op,
     url          |-> CosmosUrl(cfg),
     partitionKey |-> userId,
     body         |-> body]

\* getOrCreateConversation up to its await; uuid is what randomUUID returns
getOrCreateConversation(userId, conversationId, title, cfg, uuid) ==
    IF Truthy(conversationId) THEN Return(conversationId)
    ELSE IF ~CosmosConfigured(cfg) THEN Return(Str(<<uuid>>))
    ELSE Await(CosmosRequest("create", userId,
                   [id     |-> Str(<<uuid>>),
                    type   |-> "conversation",
                    userId |-> userId,
                    title  |-> IF title = <<>> THEN <<"New Conversation">> ELSE title],
                   cfg))

\* a catch block that passes the error on
ConversationRethrow(message, uuid) == Throw(message)

\* the catch block of getOrCreateConversation: a fresh identifier
ConversationCatch(message, uuid) == Return(Str(<<uuid>>))

\* getOrCreateConversation after its fetch, for the conversation it has sent;
\* uuid is what randomUUID returns in the catch block
ConversationAfterFetch(conversation, o, uuid) ==
    IF o.kind = "network" THEN ConversationCatch(o.message, uuid)
    ELSE IF o.status = 201 \/ o.status = 200
    THEN IF o.json.k = "notjson"
         THEN ConversationCatch(<<"Unexpected token in JSON">>, uuid)
         ELSE IF Nullish(o.json)
         THEN ConversationCatch(<<"Cannot read properties of null (reading 'id')">>, uuid)
         ELSE Return(Field(o.json, "id"))
    ELSE Return(conversation.id)

\* saveMessageToHistory up to its await
saveMessageToHistory(userId, conversationId, role, content, cfg, uuid) ==
    IF ~CosmosConfigured(cfg) THEN Return(Undef)
    ELSE Await(CosmosRequest("save", userId,
                   [id             |-> Str(<<uuid>>),
                    type           |-> "message",
                    userId         |-> userId,
                    conversationId |-> conversationId,
                    role           |-> role,
                    content        |-> content],
                   cfg))

\* saveMessageToHistory after its fetch: a failure is logged, nothing is returned
SaveAfterFetch(o) == Return(Undef)

\* getChatHistory up to its await
getChatHistory(userId, conversationId, cfg) ==
    IF ~CosmosConfigured(cfg) THEN Return(Arr(<<>>))
    ELSE Await(CosmosRequest("query", userId,
                   [query |-> "SELECT * FROM c WHERE c.conversationId = @conversationId AND c.type = @type AND c.userId = @userId ORDER BY c.createdAt ASC",
                    parameters |-> <<conversationId, Str(<<"message">>), userId>>],
                   cfg))

\* messages.push({role: doc.role, content: doc.content}) for each document
RECURSIVE HistoryMessages(_)
HistoryMessages(docs) ==
    IF docs = <<>> THEN <<>>
    ELSE <<[k |-> "object", role |-> Field(docs[1], "role"),
            content |-> Field(docs[1], "content")]>>
         \o HistoryMessages(Tail(docs))

\* a response handling that answers every outcome with the empty list
HistorySwallow(o) == Return(Arr(<<>>))

\* getChatHistory after its fetch: its catch block rethrows
HistoryAfterFetch(o) ==
    IF o.kind = "network" THEN Throw(o.message)
    ELSE IF o.status = 200
    THEN IF o.json.k = "notjson" THEN Throw(<<"Unexpected token in JSON">>)
         ELSE IF Nullish(o.json)
         THEN Throw(<<"Cannot read properties of null (reading 'Documents')">>)
         ELSE LET documents == Field(o.json, "Documents")
              IN  IF Truthy(documents) /\ documents.k = "array"
                     /\ Len(documents.items) > 0
                  THEN IF \E i \in 1..Len(documents.items) : Nullish(documents.items[i])
                       THEN Throw(<<"Cannot read properties of null (reading 'role')">>)
                       ELSE Return(Arr(HistoryMessages(documents.items)))
                  ELSE Return(Arr(<<>>))
    ELSE Throw(<<"CosmosDB error: ", o.raw>>)

\* what console.error reports of the response to a History Store request
HistoryLogged(fn, o) ==
    IF o.kind = "network" THEN Failed(o.message)
    ELSE IF fn = "getChatHistory" /\ o.status # 200 THEN Failed(<<o.raw>>)
    ELSE IF fn # "getChatHistory" /\ o.status \notin {200, 201} THEN Failed(<<o.raw>>)
    ELSE IF fn # "saveMessageToHistory" /\ (o.json.k = "notjson" \/ Nullish(o.json))
    THEN Failed(<<"TypeError or SyntaxError of the response body">>)
    ELSE NoFailure

\* the four credentials, each present or absent
HistoryEnvs ==
    { [FullEnv EXCEPT !.azureCosmosDBAccount = a,
                      !.azureCosmosDBDatabase = d,
                      !.azureCosmosDBConversationsContainer = c,
                      !.azureCosmosDBAccountKey = key] :
        a \in {"", "db-chatbot"}, d \in {"", "db_conversation_history"},
        c \in {"", "conversations"}, key \in {"", "cosmos-key"} }

UserId == Str(<<"users/1">>)

HistoryCall(fn, conversationId, title) ==
    [fn |-> fn, userId |-> UserId, conversationId |-> conversationId,
     title |-> title, role |-> Str(<<"user">>), content |-> Str(HiText)]

HistoryCalls ==
    { HistoryCall("getOrCreateConversation", c, t) :
        c \in {Undef, Null, Str(<<>>), Str(<<"conv-1">>)},
        t \in {<<>>, <<"Wiki">>} }
    \cup { HistoryCall(fn, Str(<<"conv-1">>), <<>>) :
             fn \in {"saveMessageToHistory", "getChatHistory"} }

\* bodies of the History Store responses
CosmosBodies ==
    { [raw |-> "<html>", json |-> NotJson],
      [raw |-> "null", json |-> Null],
      [raw |-> "{}", json |-> [k |-> "object"]],
      [raw |-> "{id:'conv-9'}", json |-> Object1("id", Str(<<"conv-9">>))],
      [raw |-> "{Documents:[]}", json |-> Object1("Documents", Arr(<<>>))],
      [raw |-> "{Documents:[{role:'user',content:'Ok'}]}",
       json |-> Object1("Documents",
                    Arr(<<[k |-> "object", role |-> Str(<<"user">>),
                           content |-> Str(OkText)]>>))],
      [raw |-> "{Documents:[null]}", json |-> Object1("Documents", Arr(<<Null>>))] }

CosmosOutcomes ==
    {NetworkError}
    \cup { Response(s, b.raw, b.json) : s \in {200, 201}, b \in CosmosBodies }
    \cup { Response(s, "Unauthorized", NotJson) : s \in {401, 429, 500} }

\* the History Store function up to its first await
RunHistoryCall(c, cfg, uuid) ==
    CASE c.fn = "getOrCreateConversation" ->
            getOrCreateConversation(c.userId, c.conversationId, c.title, cfg, uuid)
      [] c.fn = "saveMessageToHistory" ->
            saveMessageToHistory(c.userId, c.conversationId, c.role, c.content, cfg, uuid)
      [] OTHER -> getChatHistory(c.userId, c.conversationId, cfg)

\* the History Store function from the return of its fetch on
HistoryFinish(c, request, o, uuid) ==
    CASE c.fn = "getOrCreateConversation" -> ConversationAfterFetch(request.body, o, uuid)
      [] c.fn = "saveMessageToHistory" -> SaveAfterFetch(o)
      [] OTHER -> HistoryAfterFetch(o)

InitHistory ==
    /\ event = EmptyEvent
    /\ env \in HistoryEnvs
    /\ pc = "called"
    /\ handlers = <<>>
    /\ route = NoRoute
    /\ inflight = NoRequest
    /\ requests = <<>>
    /\ sent = <<>>
    /\ failure = NoFailure
    /\ text = <<>>
    /\ step = "idle"
    /\ cleaned = <<>>
    /\ recleaned = <<>>
    /\ parsed = NoResult
    /\ call \in HistoryCalls
    /\ returned = NoOutcome

\* the function runs up to its await
CallHistory ==
    /\ pc = "called"
    /\ \E uuid \in Uuids :
       \E r \in {RunHistoryCall(call, env, uuid)} :
          CallSettle(r)
    /\ UNCHANGED <<event, env, handlers, route, sent, failure, call>>
    /\ UNCHANGED textVars

\* the fetch of the History Store function comes back
HistoryReturns ==
    /\ pc = "await"
    /\ inflight.to = "cosmos"
    /\ \E o \in CosmosOutcomes :
       \E uuid \in Uuids :
       \E r \in {HistoryFinish(call, inflight, o, uuid)} :
          /\ failure' = HistoryLogged(call.fn, o)
          /\ CallSettle(r)
    /\ UNCHANGED <<event, env, handlers, route, sent, call>>
    /\ UNCHANGED textVars

NextHistory == CallHistory \/ HistoryReturns

SpecHistory == InitHistory /\ [][NextHistory]_vars

----------------------------------------------------------------------------
(* Properties of the HTTP handler *)

\* the text of a response whose body is a reply envelope
ReplyText(resp) ==
    resp.body.hostAppDataAction.chatDataAction.createMessageAction.message.text

\* the fixed four-level nesting around one text field, and nothing else
WellFormedReplyEnvelope(b) ==
    /\ DOMAIN b = {"hostAppDataAction"}
    /\ DOMAIN b.hostAppDataAction = {"chatDataAction"}
    /\ DOMAIN b.hostAppDataAction.chatDataAction = {"createMessageAction"}
    /\ DOMAIN b.hostAppDataAction.chatDataAction.createMessageAction = {"message"}
    /\ DOMAIN b.hostAppDataAction.chatDataAction.createMessageAction.message = {"text"}
    /\ b.hostAppDataAction.chatDataAction.createMessageAction.message.text \in Seq(STRING)

\* C1: whatever the payload and whatever the upstream calls come back with,
\* the handler never sends more than one response, every response it sends
\* carries a well-formed reply envelope, it never ends without a response
\* (no exception leaves it), and, the upstream calls returning or failing,
\* a handler that has started eventually has sent exactly one response.
C1_ExactlyOneWellFormedResponse ==
    /\ [](/\ Len(sent) <= 1
          /\ pc \in {"listening", "start", "await", "done"}
          /\ (pc = "done" => Len(sent) = 1)
          /\ \A i \in 1..Len(sent) :
                /\ sent[i].status \in {200, 500}
                /\ WellFormedReplyEnvelope(sent[i].body))
    /\ (pc = "start") ~> (pc = "done" /\ Len(sent) = 1)

\* C1 witness: a response has been sent after two upstream calls, the second
\* of which failed
C1_Witness ==
    /\ pc = "done"
    /\ Len(requests) = 2
    /\ failure.failed
    /\ Len(sent) = 1
    /\ WellFormedReplyEnvelope(sent[1].body)

\* the apology each provider handler opens its error reply with
ApologyPrefix(handler) ==
    CASE handler = "handleAIRequest" ->
            <<"Sorry, I encountered an error with the ", "gemini", " service: ">>
      [] handler = "handleWikiRequest" ->
            <<"Sorry, I encountered an error with the wiki search: ">>
      [] handler = "handleChatGPTRequest" ->
            <<"Sorry, I encountered an error with ChatGPT: ">>

\* C2: when the provider call has thrown (configuration error, status that is
\* no success, malformed body, network exception), the response is sent with
\* status 200 and its text is the handler's apology followed by the error's
\* message; a response with status 500 comes only from the catch block of the
\* HTTP handler, for an exception no event handler and no provider threw.
C2_ProviderFailureBecomesApology ==
    /\ failure.failed =>
          /\ pc = "done"
          /\ Len(sent) = 1
          /\ sent[1].status = 200
          /\ ReplyText(sent[1]) = ApologyPrefix(route.handler) \o failure.message
    /\ \A i \in 1..Len(sent) :
          sent[i].status = 500 =>
              /\ ~failure.failed
              /\ handlers = <<>>
              /\ event.body # "object"

\* C2 witness: the search-backed call came back with a status that is no
\* success, and the apology went out with status 200
C2_Witness ==
    /\ pc = "done"
    /\ failure.failed
    /\ route.handler = "handleWikiRequest"
    /\ Len(requests) = 1
    /\ Len(failure.message) = 4
    /\ sent[1].status = 200

\* C3: the one handler that runs is the handler of the first predicate that
\* holds, in the order Message, AddedToSpace, RemovedFromSpace, Action,
\* AppCommand; a payload for which none holds is handled as a message.
C3_FirstPredicateSelectsHandler ==
    (pc \in {"await", "done"} /\ event.body = "object") =>
        /\ Len(handlers) = 1
        /\ HasMessage(event) => handlers[1] = "handleMessageEvent"
        /\ (~HasMessage(event) /\ HasAddedToSpace(event)) =>
              handlers[1] = "handleAddedToSpaceEvent"
        /\ (~HasMessage(event) /\ ~HasAddedToSpace(event) /\ HasRemovedFromSpace(event)) =>
              handlers[1] = "handleRemovedFromSpaceEvent"
        /\ (/\ ~HasMessage(event) /\ ~HasAddedToSpace(event)
            /\ ~HasRemovedFromSpace(event) /\ HasAction(event)) =>
              handlers[1] = "handleActionEvent"
        /\ (/\ ~HasMessage(event) /\ ~HasAddedToSpace(event)
            /\ ~HasRemovedFromSpace(event) /\ ~HasAction(event)
            /\ HasAppCommand(event)) =>
              handlers[1] = "handleAppCommandEvent"
        /\ (/\ ~HasMessage(event) /\ ~HasAddedToSpace(event)
            /\ ~HasRemovedFromSpace(event) /\ ~HasAction(event)
            /\ ~HasAppCommand(event)) =>
              handlers[1] = "handleMessageEvent"

\* C3 witness: a payload that satisfies the AddedToSpace, the Action and the
\* AppCommand predicate has been handled by the AddedToSpace handler alone
C3_Witness ==
    /\ pc = "done"
    /\ event.type = "ADDED_TO_SPACE"
    /\ event.action
    /\ event.hasAppCommandPayload
    /\ handlers = <<"handleAddedToSpaceEvent">>

\* the upstream requests issued are those of the routed handler, for its prompt
RequestsFollowRoute ==
    \A i \in 1..Len(requests) :
        /\ requests[i].prompt = route.prompt
        /\ route.handler \in {"handleAIRequest", "handleWikiRequest", "handleChatGPTRequest"}
        /\ route.handler = "handleAIRequest" => requests[i].to \in {"gemini", "token"}
        /\ route.handler = "handleWikiRequest" =>
              requests[i].to = "azure" /\ requests[i].useSearch
        /\ route.handler = "handleChatGPTRequest" =>
              requests[i].to = "azure" /\ ~requests[i].useSearch

\* the help text went out and nothing was asked of a provider
HelpReplied ==
    /\ pc = "done"
    /\ requests = <<>>
    /\ sent = <<HttpSend(getHelpMessage(env))>>

\* C4: for a message whose text is a non-empty string: a text that is empty
\* after mention stripping is answered with the help text and no upstream
\* call; otherwise gemini, wiki and chatgpt select the generative, the
\* search-backed and the plain chat handler, each with the parsed argument,
\* help is answered with the help text, and no command selects the
\* generative handler with the full cleaned text.
C4_MessageRouting ==
    LET rawText == Field(EventMessage(event), "text")
    IN  (/\ handlers = <<"handleMessageEvent">>
         /\ rawText.k = "string"
         /\ rawText.v # <<>>) =>
            LET messageText == CleanText(rawText.v)
                result      == parseCommand(messageText)
            IN  IF messageText = <<>> THEN HelpReplied
                ELSE /\ result.command = "gemini" =>
                            route = Route("handleAIRequest", result.argument)
                     /\ result.command = "wiki" =>
                            route = Route("handleWikiRequest", result.argument)
                     /\ result.command = "chatgpt" =>
                            route = Route("handleChatGPTRequest", result.argument)
                     /\ result.command = "help" => HelpReplied
                     /\ result.command = "" =>
                            route = Route("handleAIRequest", messageText)
                     /\ RequestsFollowRoute

\* C4 witness: "wiki" followed by a question has reached the search-backed
\* handler, which has issued its request for the question alone
C4_Witness ==
    /\ handlers = <<"handleMessageEvent">>
    /\ route = Route("handleWikiRequest", HiText)
    /\ Len(requests) = 1
    /\ requests[1].to = "azure"
    /\ requests[1].useSearch

\* C5: when the message object the handler reads has no text (the object or
\* its text is missing, null or empty), the handler answers at once with
\* status 200 and exactly the fixed text, and asks nothing of a provider.
C5_NoTextContent ==
    (/\ handlers = <<"handleMessageEvent">>
     /\ ~Truthy(Field(EventMessage(event), "text"))) =>
        /\ pc = "done"
        /\ requests = <<>>
        /\ ~failure.failed
        /\ Len(sent) = 1
        /\ sent[1].status = 200
        /\ ReplyText(sent[1]) = <<"I received a message without text content.">>

\* C5 witness: a MESSAGE payload whose message is null has been answered
C5_Witness ==
    /\ pc = "done"
    /\ handlers = <<"handleMessageEvent">>
    /\ event.type = "MESSAGE"
    /\ event.message = Null
    /\ ReplyText(sent[1]) = NoTextReply

\* C10: AddedToSpace, RemovedFromSpace and Action events are answered at once
\* with status 200 and a text fixed by the kind alone (the welcome message,
\* the empty text, the unknown-action message), with no upstream call and no
\* failure.
C10_ConstantReplies ==
    (/\ Len(handlers) = 1
     /\ handlers[1] \in {"handleAddedToSpaceEvent", "handleRemovedFromSpaceEvent",
                         "handleActionEvent"}) =>
        /\ pc = "done"
        /\ requests = <<>>
        /\ ~failure.failed
        /\ Len(sent) = 1
        /\ sent[1].status = 200
        /\ handlers[1] = "handleAddedToSpaceEvent" =>
              ReplyText(sent[1]) =
                  <<"Hello! I'm your AI assistant powered by Gemini. ",
                    "Send me any message to get started, or type /help for commands!">>
        /\ handlers[1] = "handleRemovedFromSpaceEvent" => ReplyText(sent[1]) = <<>>
        /\ handlers[1] = "handleActionEvent" =>
              ReplyText(sent[1]) = <<"Unknown action. Please try again.">>

\* C10 witness: an ADDED_TO_SPACE payload that also carries a message with a
\* text and the app-command marker has been answered with the welcome message
C10_Witness ==
    /\ pc = "done"
    /\ handlers = <<"handleAddedToSpaceEvent">>
    /\ Truthy(Field(event.message, "text"))
    /\ event.hasAppCommandPayload
    /\ ReplyText(sent[1]) = WelcomeReply

----------------------------------------------------------------------------
(* Properties of parseCommand and of the cleaning *)

CommandWords == {GeminiWord, WikiWord, ChatgptWord, HelpWord}

\* the command value parseCommand returns for a command word
CommandName(w) ==
    CASE w = GeminiWord -> "gemini"
      [] w = WikiWord -> "wiki"
      [] w = ChatgptWord -> "chatgpt"
      [] w = HelpWord -> "help"

\* the command a numeric shortcut stands for
ShortcutCommand(d) ==
    CASE d = "2" -> "gemini"
      [] d = "3" -> "help"
      [] d = "4" -> "wiki"
      [] d = "5" -> "chatgpt"

\* s has no leading and no trailing whitespace
NoOuterSpace(s) == s = <<>> \/ (~IsSpace(s[1]) /\ ~IsSpace(s[Len(s)]))

\* t is a cleaned text: a digit of 2..5, whitespace, and a remainder
IsShortcutText(t) ==
    /\ CleanText(t) = t
    /\ Len(t) >= 3
    /\ t[1] \in {"2", "3", "4", "5"}
    /\ IsSpace(t[2])
    /\ Trim(From(t, 3)) # <<>>

\* the first word of t is the word w followed by further word characters
HasLongerFirstWord(t, w) ==
    /\ WordAt(t, AfterSlash(t), w)
    /\ AfterSlash(t) + Len(w) <= Len(t)
    /\ IsWordChar(t[AfterSlash(t) + Len(w)])

\* C6, as the specification states it: for a cleaned text that starts with a
\* digit of 2..5, whitespace and a remainder, the command is the mapped one
\* and the argument is the trimmed remainder exactly as written (empty for 3).
C6_ShortcutArgumentAsWritten ==
    (step = "parsed" /\ IsShortcutText(text)) =>
        /\ parsed.command = ShortcutCommand(text[1])
        /\ parsed.argument = IF text[1] = "3" THEN <<>> ELSE Trim(From(text, 3))

\* C7, as the specification states it: every text that matches
\* /^\/?word\b.*/i is parsed as that command.
C7_EveryMatchingTextIsCommand ==
    step = "parsed" =>
        \A w \in CommandWords :
            HasCommandPrefix(text, w) => parsed.command = CommandName(w)

\* C7: every text that matches /^\/?word\b/i once its mentions are removed
\* and it is trimmed is parsed as that command, whatever the case of its
\* letters and with or without the slash; a text whose first word is the
\* command word followed by further word characters ("geminis hi") is not.
C7_CleanedMatchIsCommand ==
    /\ step = "parsed" =>
          \A w \in CommandWords :
              /\ HasCommandPrefix(CleanText(text), w) =>
                    parsed.command = CommandName(w)
              /\ HasLongerFirstWord(text, w) => parsed.command # CommandName(w)
    /\ parseCommand(GeminiWord \o <<"s", " ", "h", "i">>).command # "gemini"

\* C7 witness: "/Gemini" with a trailing blank has been parsed as gemini
C7_Witness ==
    /\ step = "parsed"
    /\ text = <<"/", "G", "e", "m", "i", "n", "i", " ">>
    /\ parsed.command = "gemini"

\* C8, as the specification states it: the argument has no outer whitespace;
\* when no rule matches the argument is the original text, trimmed; the empty
\* text gives no command and the empty argument.
C8_ArgumentIsOriginalTrimmedText ==
    step = "parsed" =>
        /\ NoOuterSpace(parsed.argument)
        /\ parsed.command = "" => parsed.argument = Trim(text)
        /\ text = <<>> => parsed = [command |-> "", argument |-> <<>>]

\* C8: the argument is a string with no leading or trailing whitespace; when
\* no rule matches, the command is empty and the argument is the text with
\* its mentions removed, trimmed, and every run of whitespace replaced by one
\* blank (the original trimmed text only when that changes nothing); the
\* empty text gives no command and the empty argument.
C8_ArgumentIsCleanedCollapsedText ==
    step = "parsed" =>
        /\ parsed.argument \in Seq(STRING)
        /\ NoOuterSpace(parsed.argument)
        /\ parsed.command = "" =>
              /\ parsed.argument = CollapseSpaces(CleanText(text))
              /\ (CollapseSpaces(CleanText(text)) = Trim(text)) =>
                    parsed.argument = Trim(text)
        /\ text = <<>> => parsed = [command |-> "", argument |-> <<>>]

\* C8 witness: no rule matched a text with a mention, and the argument is
\* not the trimmed text
C8_Witness ==
    /\ step = "parsed"
    /\ parsed.command = ""
    /\ parsed.argument # <<>>
    /\ parsed.argument # Trim(text)

\* C9, as the specification states it: cleaning a cleaned text changes nothing.
C9_CleaningIdempotent ==
    step = "recleaned" => recleaned = cleaned


\* the cleaned text or the command name of an AppCommand event names a command
AppCommandMatched(messageText, commandName) ==
    \E w \in {GeminiWord, WikiWord, ChatgptWord, HelpWord} :
        HasCommandPrefix(messageText, w) \/ NamedCommand(commandName, w)

\* (argumentText || '').trim() of an argument text that is a string or absent
ArgumentPrompt(argumentText) ==
    IF Truthy(argumentText) THEN Trim(argumentText.v) ELSE <<>>

----------------------------------------------------------------------------
(* Properties of the provider functions *)

\* a text with nothing in it but whitespace
BlankText(s) == \A i \in 1..Len(s) : s[i] \in {" ", "\n", "\t"}

\* the prompt of the call is missing, empty or whitespace only
BlankPromptGiven == call.prompt.k # "string" \/ BlankText(call.prompt.v)

\* the fixed reply of each handler to a call without a prompt
PleaseProvide(fn) ==
    CASE fn = "handleAIRequest" -> <<"Please provide a message to process.">>
      [] fn = "handleWikiRequest" -> <<"Please provide a question for the wiki search.">>
      [] fn = "handleChatGPTRequest" -> <<"Please provide a message for ChatGPT.">>

HandlerNames == {"handleAIRequest", "handleWikiRequest", "handleChatGPTRequest"}

\* C12: whatever the configuration, a provider handler called with a missing,
\* empty or whitespace-only prompt returns its fixed "please provide" reply
\* and issues no request; every request issued carries a prompt that is not
\* blank.
C12_BlankPromptNoRequest ==
    /\ \A i \in 1..Len(requests) : ~BlankText(requests[i].prompt)
    /\ (pc # "called" /\ call.fn \in HandlerNames /\ BlankPromptGiven) =>
            /\ pc = "returned"
            /\ requests = <<>>
            /\ inflight = NoRequest
            /\ returned = [kind |-> "reply", text |-> PleaseProvide(call.fn)]

\* C12 witness: the search-backed handler, called with a prompt of blanks
\* under a configuration that lacks the chat-API key, has returned
C12_Witness ==
    /\ pc = "returned"
    /\ call.fn = "handleWikiRequest"
    /\ call.prompt = Str(<<" ", "\n", "\t">>)
    /\ env.azureOpenAIKey = ""
    /\ returned.kind = "reply"
    /\ requests = <<>>

\* a required setting of the generative provider is missing
GeminiSettingMissing ==
    \/ env.geminiApiKey \in {"", "YOUR_GEMINI_API_KEY"}
    \/ ~env.geminiApiUrl.present

\* the message of the generative provider's configuration error
GeminiSettingError ==
    IF env.geminiApiKey \in {"", "YOUR_GEMINI_API_KEY"}
    THEN <<"Gemini API key not configured. Please set GEMINI_API_KEY environment variable.">>
    ELSE <<"GEMINI_API_URL not configured in environment variables.">>

\* a required setting of the chat provider is missing: the endpoint, the key,
\* or the model name the call selects
ChatSettingMissing ==
    \/ env.azureOpenAIEndpoint = <<>>
    \/ env.azureOpenAIKey = ""
    \/ (IF call.useSearch /\ env.azureSearchOpenAIModel # ""
        THEN env.azureSearchOpenAIModel ELSE env.azureOpenAIModel) = ""

ChatSettingError ==
    <<"Azure OpenAI configuration incomplete. Required: AZURE_OPENAI_ENDPOINT (or AZURE_OPENAI_RESOURCE), AZURE_OPENAI_KEY, AZURE_OPENAI_MODEL">>

\* the call has a prompt and reaches its provider
ReachesProvider ==
    /\ pc # "called"
    /\ ~BlankPromptGiven
    /\ call.fn = "handleAIRequest" => call.provider = "gemini"

\* C13: when a required setting of the provider a call selects is missing
\* (generative: API key or base URL; chat: endpoint, key or the selected model
\* name), the configuration check fails with no request issued, and the
\* handler's reply is its apology, which names the integration, followed by
\* the message of the configuration error.
C13_MissingSettingBecomesApology ==
    /\ (ReachesProvider /\ call.fn = "handleAIRequest" /\ GeminiSettingMissing) =>
            /\ pc = "returned" /\ requests = <<>>
            /\ failure = [failed |-> TRUE, message |-> GeminiSettingError]
            /\ returned = [kind |-> "reply",
                           text |-> <<"Sorry, I encountered an error with the ",
                                      "gemini", " service: ">> \o GeminiSettingError]
    /\ (ReachesProvider /\ call.fn = "handleWikiRequest" /\ ChatSettingMissing) =>
            /\ pc = "returned" /\ requests = <<>>
            /\ failure = [failed |-> TRUE, message |-> ChatSettingError]
            /\ returned = [kind |-> "reply",
                           text |-> <<"Sorry, I encountered an error with the wiki search: ">>
                                    \o ChatSettingError]
    /\ (ReachesProvider /\ call.fn = "handleChatGPTRequest" /\ ChatSettingMissing) =>
            /\ pc = "returned" /\ requests = <<>>
            /\ failure = [failed |-> TRUE, message |-> ChatSettingError]
            /\ returned = [kind |-> "reply",
                           text |-> <<"Sorry, I encountered an error with ChatGPT: ">>
                                    \o ChatSettingError]
    /\ (ReachesProvider /\ call.fn = "callAzureOpenAI" /\ ChatSettingMissing) =>
            /\ pc = "returned" /\ requests = <<>>
            /\ returned = [kind |-> "throw", message |-> ChatSettingError]

\* C13 witness: the plain chat handler, asked a question when no model name
\* is configured, has returned its apology without a request
C13_Witness ==
    /\ pc = "returned"
    /\ call.fn = "handleChatGPTRequest"
    /\ call.prompt = Str(HiText)
    /\ env.azureOpenAIModel = ""
    /\ env.azureOpenAIKey # ""
    /\ returned.kind = "reply"
    /\ failure.failed
    /\ requests = <<>>

\* the chat-API requests issued so far
ChatRequests == { i \in 1..Len(requests) : requests[i].to = "azure" }

\* C14: the body of every chat-API request holds max_completion_tokens if and
\* only if search is not enabled for the call, and then with the configured
\* limit; no body holds both max_completion_tokens and data_sources.
C14_MaxTokensOnlyWithoutSearch ==
    \A i \in ChatRequests :
        LET body == requests[i].payload
        IN  /\ (body.max_completion_tokens # "absent") <=> ~call.useSearch
            /\ ~call.useSearch => body.max_completion_tokens = env.azureOpenAIMaxTokens
            /\ ~(body.max_completion_tokens # "absent" /\ body.data_sources # "absent")

\* C14 witness: a search-enabled call has issued its request with a data
\* source and without the output limit
C14_Witness ==
    /\ call.fn = "callAzureOpenAI"
    /\ call.useSearch
    /\ Len(requests) = 1
    /\ requests[1].payload.data_sources # "absent"
    /\ requests[1].payload.max_completion_tokens = "absent"

SearchUnconfigured == env.azureSearchService = "" \/ env.azureSearchIndex = ""

\* C16: when the search service name or the index name is not configured, the
\* search-source builder returns null, and the wiki handler, asked a question
\* under a complete chat configuration, still issues its one chat-API request,
\* whose body has no data_sources block; nothing fails before the request,
\* and the handler returns a reply: the wiki reply, unless the upstream call
\* itself failed or its content was no string.
C16_NullSearchSourceStillCalls ==
    (/\ SearchUnconfigured
     /\ call.fn = "handleWikiRequest"
     /\ ~BlankPromptGiven
     /\ ~ChatSettingMissing
     /\ pc # "called") =>
        /\ buildAzureSearchDataSource(env) = [type |-> "null"]
        /\ Len(requests) = 1
        /\ requests[1].to = "azure"
        /\ requests[1].payload.data_sources = "absent"
        /\ pc = "await" => ~failure.failed
        /\ pc = "returned" =>
              /\ returned.kind = "reply"
              /\ \/ returned.text[1] = "(books) Wiki Response:\n\n"
                 \/ failure.failed
                 \/ returned.text =
                      <<"Sorry, I encountered an error with the wiki search: ",
                        "cleanContent.replace is not a function">>

\* C16 witness: with no index name configured the wiki handler has returned
\* the upstream answer as its wiki reply
C16_Witness ==
    /\ env.azureSearchIndex = ""
    /\ env.azureSearchService # ""
    /\ call.fn = "handleWikiRequest"
    /\ pc = "returned"
    /\ Len(requests) = 1
    /\ requests[1].payload.data_sources = "absent"
    /\ returned = [kind |-> "reply",
                   text |-> <<"(books) Wiki Response:\n\n">> \o OkText]

\* the text holds a match of /\[doc\s*\d+\]/i
HasDocMarker(s) == \E i \in 1..Len(s) : DocMarkerEnd(s, i) # 0

\* the wiki handler has returned its wiki reply
WikiReplied ==
    /\ call.fn = "handleWikiRequest"
    /\ pc = "returned"
    /\ returned.kind = "reply"
    /\ returned.text[1] = "(books) Wiki Response:\n\n"

\* C17, as the specification states it: whatever content the upstream
\* response holds, the text of the wiki reply holds no citation marker [doc N].
C17_NoCitationMarkerInWikiReply ==
    WikiReplied => ~HasDocMarker(Tail(returned.text))

\* C18, as the specification states it: the content of the normalized result
\* that callAzureOpenAI returns is a string, whatever shape the content of
\* the upstream message has.
C18_NormalizedContentIsString ==
    (/\ call.fn = "callAzureOpenAI"
     /\ pc = "returned"
     /\ returned.kind = "return") =>
        returned.value.content.k = "string"

----------------------------------------------------------------------------
(* Properties of the History Store *)

\* the four credentials of the History Store are all configured
AllCredentials ==
    \A f \in {"azureCosmosDBAccount", "azureCosmosDBDatabase",
              "azureCosmosDBConversationsContainer", "azureCosmosDBAccountKey"} :
        env[f] # ""

\* a conversation identifier that randomUUID has produced
LocalIds == { [k |-> "string", v |-> <<u>>] : u \in Uuids }

\* C19: when any of the four History Store credentials is absent, none of the
\* three functions issues a request or raises: getOrCreateConversation
\* returns a conversation id (the one it was given, else a fresh one),
\* saveMessageToHistory returns nothing, getChatHistory returns an empty list.
C19_NoCredentialsNoRequest ==
    (~AllCredentials /\ pc # "called") =>
        /\ pc = "returned"
        /\ requests = <<>>
        /\ returned.kind = "return"
        /\ call.fn = "getOrCreateConversation" =>
              /\ returned.value.k = "string"
              /\ returned.value.v # <<>>
              /\ Truthy(call.conversationId) => returned.value = call.conversationId
              /\ ~Truthy(call.conversationId) => returned.value \in LocalIds
        /\ call.fn = "saveMessageToHistory" => returned.value = [k |-> "undefined"]
        /\ call.fn = "getChatHistory" => returned.value = [k |-> "array", items |-> <<>>]

\* C19 witness: getChatHistory, called when only the account key is missing,
\* has returned the empty list
C19_Witness ==
    /\ call.fn = "getChatHistory"
    /\ env.azureCosmosDBAccountKey = ""
    /\ env.azureCosmosDBAccount # ""
    /\ pc = "returned"
    /\ requests = <<>>
    /\ returned = [kind |-> "return", value |-> [k |-> "array", items |-> <<>>]]

\* C20: with the History Store configured and no conversation id given,
\* getOrCreateConversation never raises; when the create request comes back
\* with a failure status it returns the identifier it generated for the
\* request, and when the network call throws it returns a freshly generated
\* identifier.
C20_CreateFailureFallsBackToLocalId ==
    (/\ call.fn = "getOrCreateConversation"
     /\ AllCredentials
     /\ ~Truthy(call.conversationId)
     /\ pc = "returned") =>
        /\ returned.kind = "return"
        /\ Len(requests) = 1
        /\ failure.failed => returned.value \in LocalIds
        /\ failure = [failed |-> TRUE, message |-> <<"Unauthorized">>] =>
              returned.value = requests[1].body.id

\* C20 witness: the create request was refused and the function has returned
\* the identifier it had put into the request
C20_Witness ==
    /\ call.fn = "getOrCreateConversation"
    /\ pc = "returned"
    /\ failure = [failed |-> TRUE, message |-> <<"Unauthorized">>]
    /\ Len(requests) = 1
    /\ returned = [kind |-> "return", value |-> requests[1].body.id]

\* C21: with the History Store configured, a getChatHistory call whose
\* request fails (a status other than 200, a rejected fetch, an unreadable
\* body) raises to its caller, with the response text in the error for a
\* failure status; it returns the empty list only when nothing failed; a
\* saveMessageToHistory call returns nothing whether or not its request failed.
C21_HistoryReadFailureRaises ==
    (AllCredentials /\ pc = "returned") =>
        /\ call.fn = "getChatHistory" =>
              /\ failure.failed => returned.kind = "throw"
              /\ failure = [failed |-> TRUE, message |-> <<"Unauthorized">>] =>
                    returned = [kind |-> "throw",
                                message |-> <<"CosmosDB error: ", "Unauthorized">>]
              /\ failure = [failed |-> TRUE, message |-> <<"fetch failed">>] =>
                    returned = [kind |-> "throw", message |-> <<"fetch failed">>]
              /\ returned.kind = "return" => ~failure.failed
        /\ call.fn = "saveMessageToHistory" =>
              returned = [kind |-> "return", value |-> [k |-> "undefined"]]

\* C21 witness: the query of getChatHistory was refused and the function
\* has thrown the error that carries the response text
C21_Witness ==
    /\ call.fn = "getChatHistory"
    /\ pc = "returned"
    /\ Len(requests) = 1
    /\ failure.failed
    /\ returned = [kind |-> "throw", message |-> <<"CosmosDB error: ", "Unauthorized">>]

----------------------------------------------------------------------------
(* Properties of the dispatcher paths *)

ProviderRequests == { i \in 1..Len(requests) : requests[i].to \in {"gemini", "azure"} }

\* C23: the handling of one inbound event issues at most one request to an AI
\* provider (and at most one token fetch before it); once that request is in
\* flight, its response, failed or not, ends the handling with the reply and
\* no further request, and no request follows a failure that has been noted.
C23_AtMostOneProviderRequest ==
    /\ [](Cardinality(ProviderRequests) <= 1 /\ Len(requests) <= 2)
    /\ [][(pc = "await" /\ inflight.to \in {"gemini", "azure"}) =>
              (requests' = requests /\ pc' = "done" /\ Len(sent') = 1)]_vars
    /\ [][(failure.failed \/ failure'.failed) => requests' = requests]_vars

\* C23 witness: the one provider request of the event failed, and the event
\* was answered without another request
C23_Witness ==
    /\ pc = "done"
    /\ Cardinality(ProviderRequests) = 1
    /\ Len(requests) = 2
    /\ failure.failed
    /\ Len(sent) = 1

----------------------------------------------------------------------------
(* buildAzureSearchDataSource applied to one configuration *)

SemanticQuery == <<"s","e","m","a","n","t","i","c">>

VectorQuery == <<"v","e","c","t","o","r">>

VectorSimpleHybridQuery ==
    <<"v","e","c","t","o","r","S","i","m","p","l","e","H","y","b","r","i","d">>

VectorSemanticHybridQuery ==
    <<"v","e","c","t","o","r","S","e","m","a","n","t","i","c","H","y","b","r","i","d">>

\* the documented values of AZURE_SEARCH_QUERY_TYPE
QueryTypes ==
    {SimpleQuery, SemanticQuery, VectorQuery, VectorSimpleHybridQuery,
     VectorSemanticHybridQuery}

\* configurations of the search source: each query type, with and without a
\* semantic configuration name, an embedding name, an include-contexts value
\* and a search service name
SearchEnvs ==
    { [FullEnv EXCEPT !.azureSearchQueryType = q,
                      !.azureSearchSemanticSearchConfig = sc,
                      !.azureOpenAIEmbeddingName = en,
                      !.searchIncludeContexts = ic,
                      !.azureSearchService = ss] :
        q \in QueryTypes, sc \in {"", "default"},
        en \in {"", "text-embedding-ada-002"},
        ic \in {Undef, Arr(<<"intent">>)},
        ss \in {"", "ai-search"} }

InitSearch ==
    /\ event = EmptyEvent
    /\ env \in SearchEnvs
    /\ pc = "called"
    /\ handlers = <<>>
    /\ route = NoRoute
    /\ inflight = NoRequest
    /\ requests = <<>>
    /\ sent = <<>>
    /\ failure = NoFailure
    /\ text = <<>>
    /\ step = "idle"
    /\ cleaned = <<>>
    /\ recleaned = <<>>
    /\ parsed = NoResult
    /\ call = NoCall
    /\ returned = NoOutcome

\* buildAzureSearchDataSource runs and returns
BuildSearch ==
    /\ pc = "called"
    /\ pc' = "returned"
    /\ returned' = Return(buildAzureSearchDataSource(env))
    /\ UNCHANGED <<event, env, handlers, route, inflight, requests, sent, failure,
                   call>>
    /\ UNCHANGED textVars

NextSearch == BuildSearch

SpecSearch == InitSearch /\ [][NextSearch]_vars

\* buildAzureSearchDataSource has returned a descriptor
DescriptorBuilt ==
    /\ pc = "returned"
    /\ returned.kind = "return"
    /\ returned.value.type = "azure_search"

\* C24, as the specification states it: with a semantic configuration name
\* configured the descriptor carries semantic_configuration for the query
\* types semantic and vectorSemanticHybrid; with an embedding name configured
\* it carries embedding_dependency for the query types vector,
\* vectorSimpleHybrid and vectorSemanticHybrid; otherwise it carries neither.
C24_SearchModeFields ==
    DescriptorBuilt =>
        LET p == returned.value.parameters
            q == env.azureSearchQueryType
        IN  /\ p.semantic_configuration =
                  IF /\ env.azureSearchSemanticSearchConfig # ""
                     /\ q \in {SemanticQuery, VectorSemanticHybridQuery}
                  THEN env.azureSearchSemanticSearchConfig ELSE ""
            /\ p.embedding_dependency =
                  IF /\ env.azureOpenAIEmbeddingName # ""
                     /\ q \in {VectorQuery, VectorSimpleHybridQuery,
                               VectorSemanticHybridQuery}
                  THEN env.azureOpenAIEmbeddingName ELSE ""

\* the include_contexts list the documentation gives as the default
DefaultIncludeContexts == Arr(<<"citations", "intent">>)

\* C25, as the specification states it: a descriptor built from a
\* configuration without an include-contexts value carries the default list
\* (citations, intent) as include_contexts; a configured value is carried as
\* it is.
C25_DefaultIncludeContexts ==
    DescriptorBuilt =>
        returned.value.parameters.include_contexts =
            IF env.searchIncludeContexts = Undef
            THEN DefaultIncludeContexts
            ELSE env.searchIncludeContexts

----------------------------------------------------------------------------
(* Properties of the text extraction *)

\* the value is a non-empty string
NonEmptyString(x) == x.k = "string" /\ x.v # <<>>

\* the first non-empty string among chat.messagePayload.message.text and
\* message.text, undefined when neither is one
FirstTextFound(e) ==
    IF NonEmptyString(Field(e.mpMessage, "text")) THEN Field(e.mpMessage, "text")
    ELSE IF NonEmptyString(Field(e.message, "text")) THEN Field(e.message, "text")
    ELSE Undef

\* C26, as the specification states it: handleMessageEvent uses the first
\* non-empty string among chat.messagePayload.message.text and message.text,
\* whether or not an earlier location is present without a text, and gives
\* the "no text content" reply only when neither location holds one.
C26_FirstNonEmptyTextUsed ==
    handlers = <<"handleMessageEvent">> =>
        /\ NonEmptyString(FirstTextFound(event)) =>
              route = TextRoute(FirstTextFound(event))
        /\ route = Route("reply", NoTextReply) =>
              ~NonEmptyString(FirstTextFound(event))

----------------------------------------------------------------------------
(* handleAIRequest called with the response its upstream call will get *)

\* the API key and the URL in each combination of configured and not,
\* public and managed
GeminiEnvs ==
    { [FullEnv EXCEPT !.geminiApiKey = key, !.geminiApiUrl = url] :
        key \in {"gemini-key", "", "YOUR_GEMINI_API_KEY"},
        url \in {Url(TRUE, "gemini-3-pro-preview"),
                 Url(FALSE, "gemini-3-pro-preview"), NoUrl} }

\* handleAIRequest(prompt, 'gemini'), and what the fetch of callGeminiAPI
\* will come back with
GeminiCalls ==
    { [fn |-> "handleAIRequest", prompt |-> Str(p), provider |-> "gemini",
       chatHistory |-> <<>>, useSearch |-> FALSE, upstream |-> o] :
        p \in {HiText, OkText}, o \in GeminiOutcomes }

InitGemini ==
    /\ event = EmptyEvent
    /\ env \in GeminiEnvs
    /\ pc = "called"
    /\ handlers = <<>>
    /\ route = NoRoute
    /\ inflight = NoRequest
    /\ requests = <<>>
    /\ sent = <<>>
    /\ failure = NoFailure
    /\ text = <<>>
    /\ step = "idle"
    /\ cleaned = <<>>
    /\ recleaned = <<>>
    /\ parsed = NoResult
    /\ call \in GeminiCalls
    /\ returned = NoOutcome

\* the fetch of callGeminiAPI comes back with the response of the call
GeminiUpstreamReturns ==
    /\ pc = "await"
    /\ inflight.to = "gemini"
    /\ \E pr \in {GeminiAfterFetch(call.upstream)} :
            /\ failure' = Noted(pr)
            /\ CallSettle(CallFinish(call, pr))
    /\ UNCHANGED <<event, env, handlers, route, sent, call>>
    /\ UNCHANGED textVars

NextGemini ==
    \/ CallProvider
    \/ ProviderTokenReturns
    \/ GeminiUpstreamReturns

SpecGemini == InitGemini /\ [][NextGemini]_vars

\* responseData.candidates[0].content.parts[0].text, undefined when an
\* element of the path is missing
GeminiTextAt(json) ==
    Field(First(Field(Field(First(Field(json, "candidates")), "content"), "parts")),
          "text")

\* handleAIRequest has returned after the fetch came back with status 200
\* and a JSON object
GeminiObjectAnswered ==
    /\ call.fn = "handleAIRequest"
    /\ pc = "returned"
    /\ \E i \in 1..Len(requests) : requests[i].to = "gemini"
    /\ call.upstream.kind = "response"
    /\ call.upstream.status = 200
    /\ call.upstream.json.k = "object"

\* C27, as the specification states it: when the object of a successful
\* response has no text at candidates[0].content.parts[0].text, whichever
\* element of the path is missing, the text itself included, the error is
\* "Invalid response format from Gemini API: " with the raw payload and the
\* reply is the apology carrying it; when the text is there, the reply is the
\* formatted text.
C27_MissingTextIsInvalidFormat ==
    GeminiObjectAnswered =>
        LET responseText == GeminiTextAt(call.upstream.json)
            invalid == <<"Gemini API request failed: ",
                         "Invalid response format from Gemini API: ",
                         call.upstream.raw>>
        IN  IF responseText.k = "undefined"
            THEN /\ failure = [failed |-> TRUE, message |-> invalid]
                 /\ returned =
                       [kind |-> "reply",
                        text |-> <<"Sorry, I encountered an error with the ",
                                   "gemini", " service: ">> \o invalid]
            ELSE /\ ~failure.failed
                 /\ returned = AIRequestFormat("gemini", responseText)

----------------------------------------------------------------------------
(* Properties of the numeric shortcut without a remainder *)

\* C29, as the specification states it: a text that is the single digit "3"
\* once its mentions are removed and it is trimmed is parsed as the help
\* command with the empty argument.
C29_BareThreeIsHelp ==
    (step = "parsed" /\ ParseTrimmed(text) = <<"3">>) =>
        parsed = [command |-> "help", argument |-> <<>>]

----------------------------------------------------------------------------
(* Several invocations of the HTTP handler at once: each has its own     *)
(* request, its own locals and its own awaited call; the configuration   *)
(* is the one object they share                                          *)

\* how many invocations run at once
MaxInvocations == 2

Invocations == 1..MaxInvocations

\* one binding for all invocations, as a module-level variable would be
SharedSlot(i) == 1

\* the bindings of an invocation: the const and let declarations of the
\* handler functions are local, each invocation has its own
Slot(i) == i

\* payloads of the invocations: a prompt for each provider path, the help
\* command, and an event that is answered without a call
ConcurrentEvents ==
    { [EmptyEvent EXCEPT !.type = "MESSAGE",
                         !.message = MessageObject(Str(t), Undef, Undef)] :
        t \in {HiText, WikiWord \o <<" ">> \o HiText,
               ChatgptWord \o <<" ">> \o HiText, HelpWord} }
    \cup {[EmptyEvent EXCEPT !.type = "ADDED_TO_SPACE"]}

\* the public and the managed call shape of the generative API
ConcurrentEnvs == {FullEnv, [FullEnv EXCEPT !.geminiApiUrl = Url(FALSE, "gemini-3-pro-preview")]}

\* what a fetch of an invocation can come back with
ConcurrentOutcomes(request) ==
    CASE request.to = "token" -> TokenOutcomes
      [] request.to = "gemini" ->
            { o \in GeminiOutcomes : o.kind = "network" \/ o.raw \in
                {"{candidates:[{content:{parts:[{text:'Ok'}]}}]}", "{}"} }
      [] OTHER ->
            { o \in AzureOutcomes : o.kind = "network" \/ o.raw \in
                {"{choices:[{message:{content:'Answer [doc1].'}}]}", "{}"} }

\* the event handler whose catch block is on the stack
Frame(e) ==
    IF Branch(e) = "handleAppCommandEvent" THEN "handleAppCommandEvent"
    ELSE "handleMessageEvent"

\* the route the event handler takes for this payload
EventRoute(e) ==
    IF Branch(e) = "handleAppCommandEvent"
    THEN AppCommandDispatch(AppArgumentText(e), AppCommandId(e), AppMessageText(e),
                            AppCommandName(e))
    ELSE IF Branch(e) \in {"handleMessageEvent", "handleMessageEvent (default)"}
    THEN MessageRoute(e)
    ELSE NoRoute

\* the HTTP handler for this payload up to its first await
EventStart(e, cfg) ==
    IF e.body # "object"
    THEN Throw(<<"Cannot read properties of undefined (reading 'type')">>)
    ELSE CASE Branch(e) = "handleAddedToSpaceEvent" -> handleAddedToSpaceEvent(e)
           [] Branch(e) = "handleRemovedFromSpaceEvent" -> handleRemovedFromSpaceEvent(e)
           [] Branch(e) = "handleActionEvent" -> handleActionEvent(e)
           [] OTHER -> EventCatch(Frame(e), RunRoute(EventRoute(e), cfg))

\* the handler from the return of the awaited fetch on, with the locals it
\* finds: the frame and the route
ResumeWith(locals, cfg, request, o) ==
    LET pr == CASE request.to = "token" ->
                        GeminiAfterToken(locals.route.prompt, cfg, o)
                [] request.to = "gemini" -> GeminiAfterFetch(o)
                [] OTHER -> AzureAfterFetch(o)
        r  == IF request.to = "azure"
              THEN IF locals.route.handler = "handleWikiRequest"
                   THEN WikiFinish(pr) ELSE ChatGPTFinish(pr)
              ELSE AIRequestFinish(DefaultProvider, pr)
    IN  EventCatch(locals.frame, r)

\* the locals an invocation binds before its first await
Locals(e) == [frame |-> Frame(e), route |-> EventRoute(e)]

\* the handling of one event on its own, given what its fetches come back
\* with, in order
SequentialResult(e, cfg, os) ==
    LET r0 == EventStart(e, cfg)
        r1 == IF r0.kind = "await" /\ Len(os) >= 1
              THEN ResumeWith(Locals(e), cfg, r0.request, os[1]) ELSE r0
        r2 == IF r0.kind = "await" /\ r1.kind = "await" /\ Len(os) >= 2
              THEN ResumeWith(Locals(e), cfg, r1.request, os[2]) ELSE r1
    IN  r2

InitConcurrent ==
    /\ event \in [Invocations -> ConcurrentEvents]
    /\ env \in ConcurrentEnvs
    /\ pc = [i \in Invocations |-> "start"]
    /\ handlers = <<>>
    /\ route = [i \in Invocations |-> Locals(EmptyEvent)]
    /\ inflight = [i \in Invocations |-> NoRequest]
    /\ requests = <<>>
    /\ sent = <<>>
    /\ failure = NoFailure
    /\ text = <<>>
    /\ step = "idle"
    /\ cleaned = <<>>
    /\ recleaned = <<>>
    /\ parsed = NoResult
    /\ call = NoCall
    /\ returned = [i \in Invocations |-> <<>>]

\* invocation i sends its response, or waits for the request it has issued
InvocationSettles(i, r) ==
    IF r.kind = "await"
    THEN /\ pc' = [pc EXCEPT ![i] = "await"]
         /\ inflight' = [inflight EXCEPT ![i] = r.request]
         /\ requests' = Append(requests, [invocation |-> i, request |-> r.request])
         /\ sent' = sent
    ELSE /\ pc' = [pc EXCEPT ![i] = "done"]
         /\ inflight' = [inflight EXCEPT ![i] = NoRequest]
         /\ requests' = requests
         /\ sent' = Append(sent, [invocation |-> i, response |-> HttpRespond(r)])

\* an invocation runs from the receipt of its request to its first await
InvocationStarts ==
    \E i \in Invocations :
        /\ pc[i] = "start"
        /\ route' = [route EXCEPT ![Slot(i)] = Locals(event[i])]
        /\ InvocationSettles(i, EventStart(event[i], env))
        /\ UNCHANGED <<event, env, handlers, failure, call, returned>>
        /\ UNCHANGED textVars

\* the fetch an invocation awaits comes back, and the invocation runs on
InvocationResumes ==
    \E i \in Invocations :
        /\ pc[i] = "await"
        /\ \E o \in ConcurrentOutcomes(inflight[i]) :
              /\ returned' = [returned EXCEPT ![i] = Append(@, o)]
              /\ InvocationSettles(i, ResumeWith(route[Slot(i)], env, inflight[i], o))
        /\ UNCHANGED <<event, env, handlers, route, failure, call>>
        /\ UNCHANGED textVars

NextConcurrent == InvocationStarts \/ InvocationResumes

SpecConcurrent == InitConcurrent /\ [][NextConcurrent]_vars

\* the responses invocation i has sent, in order
SentBy(i) ==
    LET RECURSIVE Pick(_)
        Pick(k) == IF k > Len(sent) THEN <<>>
                   ELSE IF sent[k].invocation = i
                        THEN <<sent[k].response>> \o Pick(k + 1)
                        ELSE Pick(k + 1)
    IN  Pick(1)

\* C28: with the invocations interleaved at their awaits in every order,
\* each invocation sends nothing before it is done and then exactly the
\* response that the handling of its own event alone gives under the
\* configuration and the outcomes of its own fetches, and the request it
\* waits for is the one that handling issues.
C28_InterleavingKeepsReplies ==
    \A i \in Invocations :
        LET alone == SequentialResult(event[i], env, returned[i])
        IN  /\ pc[i] = "start" => SentBy(i) = <<>> /\ returned[i] = <<>>
            /\ pc[i] = "await" =>
                  /\ SentBy(i) = <<>>
                  /\ alone.kind = "await"
                  /\ inflight[i] = alone.request
            /\ pc[i] = "done" =>
                  /\ alone.kind # "await"
                  /\ SentBy(i) = <<HttpRespond(alone)>>

\* C28 witness: the first invocation issued its chat-API request before the
\* second issued one of another handler, the second was answered first, and
\* both are done
C28_Witness ==
    /\ pc = [i \in Invocations |-> "done"]
    /\ Len(requests) = 2
    /\ requests[1].invocation = 1
    /\ requests[2].invocation = 2
    /\ requests[1].request.to = "azure"
    /\ requests[2].request.to = "azure"
    /\ requests[1].request.useSearch # requests[2].request.useSearch
    /\ Len(sent) = 2
    /\ sent[1].invocation = 2
    /\ sent[2].invocation = 1
    /\ sent[1].response.status = 200
============================================================================
